---- MODULE Spec2Model ----
(***************************************************************************)
(* Excel Analytics Platform: the managed backend's tables, row-level       *)
(* security policies, constraints and triggers as the migration provisions *)
(* them, and the browser client's operations that call that backend.       *)
(***************************************************************************)
EXTENDS Integers, Sequences, FiniteSets, TLC

(***************************************************************************)
(* Bounds of the model.                                                    *)
(***************************************************************************)
\* The number of ids excel_files rows are drawn from.
MaxFileIds == 2
\* The number of ids analytics_data rows are drawn from.
MaxAnalyticsIds == 2
\* The number of ids profiles rows are drawn from.
MaxProfileIds == 2
\* Date.now() takes the values 1..MaxClock.
MaxClock == 1
\* The number of objects the bucket holds at most in SpecStorage.
MaxObjects == 2
\* The number of cells a row of an enumerated sheet has at most.
MaxColumns == 2
\* The number of handler runs the tab has waiting for the backend at most.
MaxPending == 1
MaxResponses == 2

(***************************************************************************)
(* Values.                                                                 *)
(***************************************************************************)
\* SQL NULL, JavaScript null / undefined.
Null == "NULL"
\* A filter that puts no condition on a column.
AnyValue == "ANY"
\* A column left out of an INSERT, so that its DEFAULT applies.
Default == "DEFAULT"

\* The ids of the accounts that can exist in auth.users.
UserIds == {"a", "b"}
\* auth.uid() of a request: a signed-up user's id, or NULL for an anonymous caller.
Callers == UserIds \cup {Null}

\* Row ids (uuid values), one namespace per table.
FileIds == {"f" \o ToString(i) : i \in 1..MaxFileIds}
AnalyticsIds == {"n" \o ToString(i) : i \in 1..MaxAnalyticsIds}
ProfileIds == {"p" \o ToString(i) : i \in 1..MaxProfileIds}

\* SQL's `x = y` used as a policy predicate: NULL on either side is not true.
SqlEq(x, y) == x # Null /\ y # Null /\ x = y

\* gen_random_uuid(): an id no row of the table has.
FreshId(ids, used) == CHOOSE i \in ids \ used : TRUE

VARIABLES
  authUsers,       \* auth.users: the ids of the signed-up accounts
  profiles,        \* public.profiles
  excel_files,     \* public.excel_files
  analytics_data,  \* public.analytics_data
  objects,         \* storage.objects of the bucket 'excel-files'
  resp,            \* the last request the backend served and what it did
  user,            \* useAuth().user of the browser tab: a user id or null
  uploading,       \* FileUpload state
  uploadProgress,  \* FileUpload state
  deletingId,      \* FileList state
  files,           \* Dashboard state: the rows of the last successful fetch
  totalFiles,      \* Dashboard state
  totalSize,       \* Dashboard state
  loading,         \* Dashboard state
  selectedFile,    \* Dashboard state: <<>> for null, <<row>> for a file
  sheets,          \* ExcelDataViewer state
  activeSheet,     \* ExcelDataViewer state (0-based index)
  viewerLoading,   \* ExcelDataViewer state `loading`
  tab,             \* the value of ExcelDataViewer's Tabs
  xAxis,           \* ChartGenerator state
  yAxis,           \* ChartGenerator state
  chartData,       \* ChartGenerator state
  pending,         \* the backend requests the tab has issued and still awaits
  event            \* what the tab's last step did: its toasts and callbacks

dbVars == <<authUsers, profiles, excel_files, analytics_data>>
clientVars == <<user, uploading, uploadProgress, deletingId, files, totalFiles,
                totalSize, loading, selectedFile, sheets, activeSheet,
                viewerLoading, tab, xAxis, yAxis, chartData, pending, event>>
vars == <<authUsers, profiles, excel_files, analytics_data, objects, resp,
          user, uploading, uploadProgress, deletingId, files, totalFiles,
          totalSize, loading, selectedFile, sheets, activeSheet,
          viewerLoading, tab, xAxis, yAxis, chartData, pending, event>>

\* What the backend did for a request: the rows it returned (read), the rows it
\* removed or replaced (old), the rows it created or wrote (new), and whether
\* it answered with an error.  The variable resp keeps the last request that
\* was carried out: one that fails is rolled back and leaves nothing behind.
Response(caller, table, op, where, read, old, new, error) ==
  [caller |-> caller, table |-> table, op |-> op, where |-> where,
   read |-> read, old |-> old, new |-> new, error |-> error]

NoFilter == [id |-> AnyValue, user_id |-> AnyValue]

NoResponse == Response(Null, "none", "none", NoFilter, {}, {}, {}, FALSE)

\* A WHERE clause over the columns id and user_id (PostgREST .eq filters); the
\* response records it for a SELECT.
Filters(ids) == [id : ids \cup {AnyValue}, user_id : UserIds \cup {AnyValue}]

\* The filters the model's direct requests use: all rows, or the rows of one id.
IdFilters(ids) == {w \in Filters(ids) : w.user_id = AnyValue}

OneIdFilters(ids) == {w \in IdFilters(ids) : w.id # AnyValue}

Matches(where, row) ==
  /\ where.id = AnyValue \/ row.id = where.id
  /\ where.user_id = AnyValue \/ row.user_id = where.user_id

(***************************************************************************)
(* public.profiles: table, constraints, policies, signup trigger.          *)
(***************************************************************************)
DisplayNames == {Null, "x"}

ProfileRow(id, user_id, display_name) ==
  [id |-> id, user_id |-> user_id, display_name |-> display_name]

\* PRIMARY KEY (id), UNIQUE (user_id), NOT NULL on both.
ProfilesConstraints(rows) ==
  /\ \A r \in rows : r.id # Null /\ r.user_id # Null
  /\ \A r1, r2 \in rows : (r1.id = r2.id \/ r1.user_id = r2.user_id) => r1 = r2

\* "Users can view all profiles": FOR SELECT USING (true).
ProfilesSelectPolicy(uid, row) == TRUE

\* "Users can update their own profile": FOR UPDATE USING (auth.uid() = user_id).
\* An UPDATE policy without WITH CHECK applies its USING to the new row too.
ProfilesUpdatePolicyMutant(uid, row) == TRUE

ProfilesUpdatePolicy(uid, row) == SqlEq(uid, row.user_id)

\* "Users can insert their own profile": FOR INSERT WITH CHECK (auth.uid() = user_id).
ProfilesInsertPolicyMutant(uid, row) == TRUE

ProfilesInsertPolicy(uid, row) == SqlEq(uid, row.user_id)

\* Row-level security is enabled and no policy is FOR DELETE: nothing is deletable.
ProfilesDeletePolicy(uid, row) == FALSE

\* handle_new_user(), run by the trigger on_auth_user_created (SECURITY DEFINER,
\* so no policy applies): the profiles table after the trigger's INSERT.
HandleNewUser(newId, display_name) ==
  profiles \cup {ProfileRow(FreshId(ProfileIds, {p.id : p \in profiles}), newId, display_name)}

\* INSERT INTO auth.users fires the trigger in the same transaction: a constraint
\* violation in the trigger aborts the signup.
SignUp(u, display_name) ==
  /\ u \notin authUsers
  /\ ProfileIds \ {p.id : p \in profiles} # {}
  /\ LET after == HandleNewUser(u, display_name)
         ok == ProfilesConstraints(after) /\ Cardinality(after) > Cardinality(profiles)
     IN /\ authUsers' = IF ok THEN authUsers \cup {u} ELSE authUsers
        /\ profiles' = IF ok THEN after ELSE profiles
        /\ resp' = IF ok THEN Response(Null, "auth.users", "signup", NoFilter, {},
                                       {}, after \ profiles, FALSE)
                       ELSE resp
  /\ UNCHANGED <<excel_files, analytics_data, objects, clientVars>>

ProfilesSelect(c, where) ==
  /\ resp' = Response(c, "profiles", "select", where,
                      {p \in profiles : ProfilesSelectPolicy(c, p) /\ Matches(where, p)},
                      {}, {}, FALSE)
  /\ UNCHANGED <<authUsers, profiles, excel_files, analytics_data, objects, clientVars>>

ProfilesInsert(c, id, user_id, display_name) ==
  /\ id = Default => ProfileIds \ {p.id : p \in profiles} # {}
  /\ LET row == ProfileRow(IF id = Default
                             THEN FreshId(ProfileIds, {p.id : p \in profiles})
                             ELSE id, user_id, display_name)
         after == profiles \cup {row}
         ok == /\ ProfilesInsertPolicy(c, row)
               /\ row \notin profiles
               /\ ProfilesConstraints(after)
     IN /\ profiles' = IF ok THEN after ELSE profiles
        /\ resp' = IF ok THEN Response(c, "profiles", "insert", NoFilter, {},
                                       {}, {row}, FALSE)
                       ELSE resp
  /\ UNCHANGED <<authUsers, excel_files, analytics_data, objects, clientVars>>

\* UPDATE profiles SET user_id = .., display_name = .. WHERE ..; a column given
\* as AnyValue is left as it is.
ProfilesUpdate(c, where, user_id, display_name) ==
  /\ LET hit == {p \in profiles : /\ Matches(where, p)
                                  /\ ProfilesSelectPolicy(c, p)
                                  /\ ProfilesUpdatePolicy(c, p)}
         Set(p) == ProfileRow(p.id,
                              IF user_id = AnyValue THEN p.user_id ELSE user_id,
                              IF display_name = AnyValue THEN p.display_name
                                                         ELSE display_name)
         new == {Set(p) : p \in hit}
         after == (profiles \ hit) \cup new
         ok == /\ \A n \in new : ProfilesUpdatePolicy(c, n) /\ ProfilesSelectPolicy(c, n)
               /\ Cardinality(after) = Cardinality(profiles)
               /\ ProfilesConstraints(after)
     IN /\ profiles' = IF ok THEN after ELSE profiles
        /\ resp' = IF ok THEN Response(c, "profiles", "update", NoFilter, {},
                                       hit, new, FALSE)
                       ELSE resp
  /\ UNCHANGED <<authUsers, excel_files, analytics_data, objects, clientVars>>

ProfilesDelete(c, where) ==
  /\ LET hit == {p \in profiles : /\ Matches(where, p)
                                  /\ ProfilesSelectPolicy(c, p)
                                  /\ ProfilesDeletePolicy(c, p)}
     IN /\ profiles' = profiles \ hit
        /\ resp' = Response(c, "profiles", "delete", NoFilter, {}, hit, {}, FALSE)
  /\ UNCHANGED <<authUsers, excel_files, analytics_data, objects, clientVars>>

(***************************************************************************)
(* public.excel_files and public.analytics_data: tables, constraints,      *)
(* foreign key, policies.                                                  *)
(***************************************************************************)
Statuses == {"uploaded", "processing"}

\* upload_date is a number that grows with time; 0 in the row given to an INSERT
\* says that the column is left out.
FileRow(id, user_id, filename, original_name, file_size, file_path, status, upload_date) ==
  [id |-> id, user_id |-> user_id, filename |-> filename,
   original_name |-> original_name, file_size |-> file_size,
   file_path |-> file_path, status |-> status, upload_date |-> upload_date]

AnalyticsRow(id, file_id, user_id, sheet_name, data) ==
  [id |-> id, file_id |-> file_id, user_id |-> user_id,
   sheet_name |-> sheet_name, data |-> data]

\* excel_files: PRIMARY KEY (id), user_id NOT NULL.  (The other NOT NULL columns
\* are never given as NULL by any request of the model.)
FilesConstraints(rows) ==
  /\ \A r \in rows : r.id # Null /\ r.user_id # Null
  /\ \A r1, r2 \in rows : r1.id = r2.id => r1 = r2

\* analytics_data: PRIMARY KEY (id); file_id and user_id NOT NULL.
AnalyticsConstraints(rows) ==
  /\ \A r \in rows : r.id # Null /\ r.file_id # Null /\ r.user_id # Null
  /\ \A r1, r2 \in rows : r1.id = r2.id => r1 = r2

\* file_id UUID NOT NULL REFERENCES public.excel_files(id): the check made when
\* an analytics row is written or a referenced file row's id changes.
ForeignKey(fileRows, analytics) ==
  \A a \in analytics : \E f \in fileRows : f.id = a.file_id

\* ON DELETE CASCADE: the analytics rows left when the file rows `deleted` go.
\* A referential action runs whatever the policies of analytics_data say.
CascadeMutant(deleted, analytics) == analytics

Cascade(deleted, analytics) ==
  {a \in analytics : \A f \in deleted : f.id # a.file_id}

\* excel_files policies: each of SELECT, UPDATE, DELETE is USING (auth.uid() =
\* user_id) and INSERT is WITH CHECK (auth.uid() = user_id).
FilesSelectPolicyMutant(uid, row) == TRUE

FilesSelectPolicy(uid, row) == SqlEq(uid, row.user_id)

FilesInsertPolicy(uid, row) == SqlEq(uid, row.user_id)

\* Without WITH CHECK the USING expression is applied to the new row as well.
FilesUpdatePolicy(uid, row) == SqlEq(uid, row.user_id)

FilesDeletePolicy(uid, row) == SqlEq(uid, row.user_id)

\* analytics_data policies: SELECT USING and INSERT WITH CHECK (auth.uid() =
\* user_id); row-level security is enabled and no policy is FOR UPDATE or FOR
\* DELETE, so no row passes for those commands.
AnalyticsSelectPolicy(uid, row) == SqlEq(uid, row.user_id)

AnalyticsInsertPolicy(uid, row) == SqlEq(uid, row.user_id)

AnalyticsUpdatePolicy(uid, row) == FALSE

AnalyticsDeletePolicyMutant(uid, row) == SqlEq(uid, row.user_id)

AnalyticsDeletePolicy(uid, row) == FALSE

(***************************************************************************)
(* What the database does for one statement: the tables after it and the   *)
(* response.  A statement that fails leaves every table as it was.         *)
(***************************************************************************)
DbResult(fileRows, analytics, response) ==
  [excel_files |-> fileRows, analytics_data |-> analytics, resp |-> response]

DbSelectFiles(c, where) ==
  DbResult(excel_files, analytics_data,
           Response(c, "excel_files", "select", where,
                    {f \in excel_files : FilesSelectPolicy(c, f) /\ Matches(where, f)},
                    {}, {}, FALSE))

\* now(): later than the upload_date of every stored row.
Now ==
  LET dates == {f.upload_date : f \in excel_files} \cup {0}
  IN 1 + (CHOOSE d \in dates : \A e \in dates : e <= d)

\* The row an INSERT stores: a column left out takes its DEFAULT.
WithFileDefaults(row) ==
  [row EXCEPT !.id = IF @ = Default
                       THEN FreshId(FileIds, {f.id : f \in excel_files}) ELSE @,
              !.status = IF @ = Default THEN "uploaded" ELSE @,
              !.upload_date = IF @ = 0 THEN Now ELSE @]

DbInsertFile(c, given) ==
  LET row == WithFileDefaults(given)
      after == excel_files \cup {row}
      ok == /\ FilesInsertPolicy(c, row)
            /\ row \notin excel_files
            /\ FilesConstraints(after)
  IN DbResult(IF ok THEN after ELSE excel_files, analytics_data,
              Response(c, "excel_files", "insert", NoFilter, {},
                       {}, IF ok THEN {row} ELSE {}, ~ok))

\* UPDATE excel_files SET id = .., user_id = .., status = .. WHERE ..; a column
\* given as AnyValue is left as it is.  The foreign key of analytics_data is
\* ON UPDATE NO ACTION: a referenced id cannot be changed away.
DbUpdateFiles(c, where, id, user_id, status) ==
  LET hit == {f \in excel_files : /\ Matches(where, f)
                                  /\ FilesSelectPolicy(c, f)
                                  /\ FilesUpdatePolicy(c, f)}
      Set(f) == [f EXCEPT !.id = IF id = AnyValue THEN @ ELSE id,
                          !.user_id = IF user_id = AnyValue THEN @ ELSE user_id,
                          !.status = IF status = AnyValue THEN @ ELSE status]
      new == {Set(f) : f \in hit}
      after == (excel_files \ hit) \cup new
      ok == /\ \A n \in new : FilesUpdatePolicy(c, n) /\ FilesSelectPolicy(c, n)
            /\ Cardinality(after) = Cardinality(excel_files)
            /\ FilesConstraints(after)
            /\ ForeignKey(after, analytics_data)
  IN DbResult(IF ok THEN after ELSE excel_files, analytics_data,
              Response(c, "excel_files", "update", NoFilter, {},
                       IF ok THEN hit ELSE {}, IF ok THEN new ELSE {}, ~ok))

DbDeleteFiles(c, where) ==
  LET hit == {f \in excel_files : /\ Matches(where, f)
                                  /\ FilesSelectPolicy(c, f)
                                  /\ FilesDeletePolicy(c, f)}
  IN DbResult(excel_files \ hit, Cascade(hit, analytics_data),
              Response(c, "excel_files", "delete", NoFilter, {}, hit, {}, FALSE))

DbSelectAnalytics(c, where) ==
  DbResult(excel_files, analytics_data,
           Response(c, "analytics_data", "select", where,
                    {a \in analytics_data : AnalyticsSelectPolicy(c, a) /\ Matches(where, a)},
                    {}, {}, FALSE))

WithAnalyticsDefaults(row) ==
  [row EXCEPT !.id = IF @ = Default
                       THEN FreshId(AnalyticsIds, {a.id : a \in analytics_data}) ELSE @]

DbInsertAnalytics(c, given) ==
  LET row == WithAnalyticsDefaults(given)
      after == analytics_data \cup {row}
      ok == /\ AnalyticsInsertPolicy(c, row)
            /\ row \notin analytics_data
            /\ AnalyticsConstraints(after)
            /\ ForeignKey(excel_files, after)
  IN DbResult(excel_files, IF ok THEN after ELSE analytics_data,
              Response(c, "analytics_data", "insert", NoFilter, {},
                       {}, IF ok THEN {row} ELSE {}, ~ok))

\* supabase .upsert(row) with no onConflict option: INSERT .. ON CONFLICT (id)
\* DO UPDATE SET <every given column>.  The conflict target is the primary key;
\* a row given without id takes a fresh id and can conflict with nothing.  The
\* update path needs the UPDATE policies to pass for the existing and new row.
DbUpsertAnalytics(c, given) ==
  LET row == WithAnalyticsDefaults(given)
      hit == {a \in analytics_data : a.id = row.id}
      after == (analytics_data \ hit) \cup {row}
      ok == /\ AnalyticsInsertPolicy(c, row)
            /\ \A a \in hit : /\ AnalyticsSelectPolicy(c, a)
                               /\ AnalyticsUpdatePolicy(c, a)
                               /\ AnalyticsUpdatePolicy(c, row)
            /\ AnalyticsConstraints(after)
            /\ ForeignKey(excel_files, after)
  IN DbResult(excel_files, IF ok THEN after ELSE analytics_data,
              Response(c, "analytics_data", "upsert", NoFilter, {},
                       IF ok THEN hit ELSE {}, IF ok THEN {row} ELSE {}, ~ok))

\* UPDATE analytics_data SET <cols> = <their values in `given`> WHERE ..
DbUpdateAnalytics(c, where, cols, given) ==
  LET hit == {a \in analytics_data : /\ Matches(where, a)
                                     /\ AnalyticsSelectPolicy(c, a)
                                     /\ AnalyticsUpdatePolicy(c, a)}
      Set(a) == [a EXCEPT !.user_id = IF "user_id" \in cols THEN given.user_id ELSE @,
                          !.data = IF "data" \in cols THEN given.data ELSE @]
      new == {Set(a) : a \in hit}
      after == (analytics_data \ hit) \cup new
      ok == /\ \A n \in new : AnalyticsUpdatePolicy(c, n) /\ AnalyticsSelectPolicy(c, n)
            /\ AnalyticsConstraints(after)
            /\ ForeignKey(excel_files, after)
  IN DbResult(excel_files, IF ok THEN after ELSE analytics_data,
              Response(c, "analytics_data", "update", NoFilter, {},
                       IF ok THEN hit ELSE {}, IF ok THEN new ELSE {}, ~ok))

DbDeleteAnalytics(c, where) ==
  LET hit == {a \in analytics_data : /\ Matches(where, a)
                                     /\ AnalyticsSelectPolicy(c, a)
                                     /\ AnalyticsDeletePolicy(c, a)}
  IN DbResult(excel_files, analytics_data \ hit,
              Response(c, "analytics_data", "delete", NoFilter, {}, hit, {}, FALSE))

\* The database executes one statement; resp keeps the last statement that was
\* carried out (one that fails is rolled back and leaves nothing behind).
Execute(result) ==
  /\ excel_files' = result.excel_files
  /\ analytics_data' = result.analytics_data
  /\ resp' = IF result.resp.error THEN resp ELSE result.resp

(***************************************************************************)
(* Text.  A string is a sequence of characters, so that building a path    *)
(* and taking it apart again are computed, not assumed.                    *)
(***************************************************************************)
\* uuid::text, `${user.id}`: a uuid's text holds no '/'.
UuidText(u) == <<u>>

\* The decimal digits of a natural number, `${Date.now()}`.
Digit(d) == <<"0", "1", "2", "3", "4", "5", "6", "7", "8", "9">>[d + 1]

RECURSIVE Digits(_)
Digits(n) == IF n < 10 THEN <<Digit(n)>> ELSE Digits(n \div 10) \o <<Digit(n % 10)>>

\* string_to_array(name, '/'): the segments between the slashes.
RECURSIVE Split(_)
Split(name) ==
  IF \A i \in DOMAIN name : name[i] # "/"
  THEN <<name>>
  ELSE LET k == CHOOSE i \in DOMAIN name :
                  name[i] = "/" /\ \A j \in 1..(i - 1) : name[j] # "/"
       IN <<SubSeq(name, 1, k - 1)>> \o Split(SubSeq(name, k + 1, Len(name)))

\* storage.foldername(name): every segment of the path but the last.
FolderName(name) == SubSeq(Split(name), 1, Len(Split(name)) - 1)

\* const fileName = `${Date.now()}-${file.name}`
UploadFileName(now, name) == Digits(now) \o <<"-">> \o name

\* const filePath = `${user.id}/${fileName}`
UploadPathMutant(uid, fileName) == fileName

UploadPath(uid, fileName) == UuidText(uid) \o <<"/">> \o fileName

\* .download(`${user.id}/${fileName}`)
ViewPathMutant(uid, fileName) == fileName

ViewPath(uid, fileName) == UuidText(uid) \o <<"/">> \o fileName

(***************************************************************************)
(* storage.objects of the private bucket 'excel-files' and its policies.   *)
(***************************************************************************)
Bucket == "excel-files"

ObjectRow(name, content) == [bucket_id |-> Bucket, name |-> name, content |-> content]

\* bucket_id = 'excel-files' AND auth.uid()::text = (storage.foldername(name))[1]
\* (an array element that does not exist is NULL, and NULL equals nothing).
StorageOwner(uid, row) ==
  /\ row.bucket_id = Bucket
  /\ uid # Null
  /\ Len(FolderName(row.name)) >= 1
  /\ UuidText(uid) = FolderName(row.name)[1]

\* The four policies on storage.objects share that predicate: SELECT, UPDATE and
\* DELETE as USING, INSERT as WITH CHECK.
StorageSelectPolicy(uid, row) == StorageOwner(uid, row)

StorageInsertPolicy(uid, row) == StorageOwner(uid, row)

StorageUpdatePolicy(uid, row) == StorageOwner(uid, row)

StorageDeletePolicy(uid, row) == StorageOwner(uid, row)

\* What the storage service does for one request: the objects after it, and
\* the response.  `origin` names the code that built the request.
StorageResult(after, response) == [objects |-> after, resp |-> response]

StorageTarget(origin, name) == [origin |-> origin, name |-> name]

\* .upload(path, file) without upsert: INSERT; an existing object is an error.
StorageUpload(c, origin, name, content) ==
  LET row == ObjectRow(name, content)
      ok == /\ StorageInsertPolicy(c, row)
            /\ \A o \in objects : o.name # name
  IN StorageResult(IF ok THEN objects \cup {row} ELSE objects,
                   Response(c, "storage.objects", "upload", StorageTarget(origin, name),
                            {}, {}, IF ok THEN {row} ELSE {}, ~ok))

\* .download(path): SELECT; an object that is missing or not visible is an error.
StorageDownload(c, origin, name) ==
  LET hit == {o \in objects : o.name = name /\ StorageSelectPolicy(c, o)}
  IN StorageResult(objects,
                   Response(c, "storage.objects", "download", StorageTarget(origin, name),
                            hit, {}, {}, hit = {}))

\* .remove([path]): DELETE of the visible, deletable objects of that name; a
\* path that matches nothing is not an error.
StorageRemove(c, origin, name) ==
  LET hit == {o \in objects : /\ o.name = name
                              /\ StorageSelectPolicy(c, o)
                              /\ StorageDeletePolicy(c, o)}
  IN StorageResult(objects \ hit,
                   Response(c, "storage.objects", "remove", StorageTarget(origin, name),
                            {}, hit, {}, FALSE))

\* .update(path, file): UPDATE of the object's content; the policy's USING is
\* applied to the old and the new row.
StorageOverwrite(c, origin, name, content) ==
  LET hit == {o \in objects : /\ o.name = name
                              /\ StorageSelectPolicy(c, o)
                              /\ StorageUpdatePolicy(c, o)}
      new == {ObjectRow(o.name, content) : o \in hit}
      ok == hit # {} /\ \A n \in new : StorageUpdatePolicy(c, n)
  IN StorageResult(IF ok THEN (objects \ hit) \cup new ELSE objects,
                   Response(c, "storage.objects", "update", StorageTarget(origin, name),
                            {}, IF ok THEN hit ELSE {}, IF ok THEN new ELSE {}, ~ok))

(***************************************************************************)
(* The state after construction.                                           *)
(***************************************************************************)
\* What one step of the tab did: the handler that ran, whether it handled a
\* failure, the titles of the toasts it showed, the callbacks it invoked.
Event(op, failed, toasts, calls) ==
  [op |-> op, failed |-> failed, toasts |-> toasts, calls |-> calls]

NoEvent == Event("none", FALSE, {}, {})

\* The useState initial values of FileUpload, FileList, Dashboard and
\* ExcelDataViewer; nothing requested yet.
InitClient ==
  /\ uploading = FALSE
  /\ uploadProgress = 0
  /\ deletingId = Null
  /\ files = <<>>
  /\ totalFiles = 0
  /\ totalSize = 0
  /\ loading = TRUE
  /\ selectedFile = <<>>
  /\ sheets = <<>>
  /\ activeSheet = 0
  /\ viewerLoading = FALSE
  /\ tab = "preview"
  /\ xAxis = ""
  /\ yAxis = ""
  /\ chartData = <<>>
  /\ pending = {}
  /\ event = NoEvent

\* The migration leaves every table and the bucket empty.
InitBackend ==
  /\ authUsers = {}
  /\ profiles = {}
  /\ excel_files = {}
  /\ analytics_data = {}
  /\ objects = {}
  /\ resp = NoResponse

(***************************************************************************)
(* SpecProfiles: signups and arbitrary requests on public.profiles by the  *)
(* signed-up users and by anonymous callers.                               *)
(***************************************************************************)
InitProfiles == InitBackend /\ user = Null /\ InitClient

NextProfiles ==
  \/ \E u \in UserIds, d \in DisplayNames : SignUp(u, d)
  \/ \E c \in authUsers \cup {Null}, w \in IdFilters(ProfileIds) : ProfilesSelect(c, w)
  \/ \E c \in authUsers \cup {Null}, i \in ProfileIds \cup {Default},
        u \in UserIds, d \in DisplayNames : ProfilesInsert(c, i, u, d)
  \/ \E c \in authUsers \cup {Null}, w \in IdFilters(ProfileIds),
        u \in UserIds \cup {AnyValue}, d \in DisplayNames \cup {AnyValue} :
        ProfilesUpdate(c, w, u, d)
  \/ \E c \in authUsers \cup {Null}, w \in IdFilters(ProfileIds) : ProfilesDelete(c, w)

SpecProfiles == InitProfiles /\ [][NextProfiles]_vars

(***************************************************************************)
(* Direct requests: any caller can send the backend any statement; the     *)
(* policies and constraints decide what it does.                           *)
(***************************************************************************)
\* The rows direct requests write: the columns no policy or constraint reads
\* are fixed, the id is generated.
DirectFileRows ==
  {FileRow(Default, u, <<"w">>, <<"w">>, 1, <<u, "/", "w">>, Default, 1) : u \in UserIds}

AnalyticsJson == {[columns |-> <<>>, rowCount |-> 0, sampleData |-> <<>>]}

UpdatedJson == {[columns |-> <<>>, rowCount |-> 1, sampleData |-> <<>>]}

DirectAnalyticsRows(ids) ==
  {AnalyticsRow(i, f, u, "S1", d) :
     i \in ids, f \in FileIds, u \in UserIds, d \in AnalyticsJson}

\* One SET clause of an UPDATE of excel_files: one column changed.
FileSetClauses ==
  [id : FileIds, user_id : {AnyValue}, status : {AnyValue}]
    \cup [id : {AnyValue}, user_id : UserIds, status : {AnyValue}]
    \cup [id : {AnyValue}, user_id : {AnyValue}, status : {"processing"}]

\* One SET clause of an UPDATE of analytics_data: the columns and their values.
AnalyticsSetClauses ==
  [cols : {{"user_id"}, {"data"}}, user_id : {"b"}, data : UpdatedJson]

InitTwoUsers ==
  /\ authUsers = UserIds
  /\ profiles = {ProfileRow("p1", "a", Null), ProfileRow("p2", "b", Null)}
  /\ excel_files = {}
  /\ analytics_data = {}
  /\ objects = {}
  /\ resp = NoResponse
  /\ user = Null
  /\ InitClient

DirectSelectFiles(c, w) ==
  Execute(DbSelectFiles(c, w)) /\ UNCHANGED <<authUsers, profiles, objects, clientVars>>

DirectInsertFile(c, row) ==
  /\ row.id = Default => FileIds \ {f.id : f \in excel_files} # {}
  /\ Execute(DbInsertFile(c, row))
  /\ UNCHANGED <<authUsers, profiles, objects, clientVars>>

DirectUpdateFiles(c, w, set) ==
  /\ Execute(DbUpdateFiles(c, w, set.id, set.user_id, set.status))
  /\ UNCHANGED <<authUsers, profiles, objects, clientVars>>

DirectDeleteFiles(c, w) ==
  Execute(DbDeleteFiles(c, w)) /\ UNCHANGED <<authUsers, profiles, objects, clientVars>>

DirectSelectAnalytics(c, w) ==
  Execute(DbSelectAnalytics(c, w)) /\ UNCHANGED <<authUsers, profiles, objects, clientVars>>

DirectInsertAnalytics(c, row) ==
  /\ row.id = Default => AnalyticsIds \ {a.id : a \in analytics_data} # {}
  /\ Execute(DbInsertAnalytics(c, row))
  /\ UNCHANGED <<authUsers, profiles, objects, clientVars>>

DirectUpsertAnalytics(c, row) ==
  /\ row.id = Default => AnalyticsIds \ {a.id : a \in analytics_data} # {}
  /\ Execute(DbUpsertAnalytics(c, row))
  /\ UNCHANGED <<authUsers, profiles, objects, clientVars>>

DirectUpdateAnalytics(c, w, set) ==
  /\ Execute(DbUpdateAnalytics(c, w, set.cols, set))
  /\ UNCHANGED <<authUsers, profiles, objects, clientVars>>

DirectDeleteAnalytics(c, w) ==
  Execute(DbDeleteAnalytics(c, w)) /\ UNCHANGED <<authUsers, profiles, objects, clientVars>>

(***************************************************************************)
(* SpecFiles: arbitrary requests on public.excel_files by two signed-up    *)
(* users and by anonymous callers.                                         *)
(***************************************************************************)
NextFiles ==
  \/ \E c \in Callers, w \in IdFilters(FileIds) : DirectSelectFiles(c, w)
  \/ \E c \in Callers, row \in DirectFileRows : DirectInsertFile(c, row)
  \/ \E c \in Callers, w \in IdFilters(FileIds), set \in FileSetClauses :
        DirectUpdateFiles(c, w, set)
  \/ \E c \in Callers, w \in IdFilters(FileIds) : DirectDeleteFiles(c, w)

SpecFiles == InitTwoUsers /\ [][NextFiles]_vars

(***************************************************************************)
(* SpecAnalytics: arbitrary writes on public.analytics_data and on the     *)
(* excel_files rows it references, by two signed-up users.                 *)
(***************************************************************************)
NextAnalytics ==
  \/ \E c \in UserIds, row \in DirectFileRows : DirectInsertFile(c, row)
  \/ \E c \in UserIds, w \in OneIdFilters(FileIds),
        set \in {x \in FileSetClauses : x.id # AnyValue} : DirectUpdateFiles(c, w, set)
  \/ \E c \in UserIds, w \in OneIdFilters(FileIds) : DirectDeleteFiles(c, w)
  \/ \E c \in UserIds, row \in DirectAnalyticsRows({Default}) : DirectInsertAnalytics(c, row)
  \/ \E c \in UserIds, row \in DirectAnalyticsRows(AnalyticsIds) :
        row.user_id = c /\ DirectUpsertAnalytics(c, row)
  \/ \E c \in UserIds, w \in OneIdFilters(AnalyticsIds), set \in AnalyticsSetClauses :
        DirectUpdateAnalytics(c, w, set)
  \/ \E c \in UserIds, w \in OneIdFilters(AnalyticsIds) : DirectDeleteAnalytics(c, w)

SpecAnalytics == InitTwoUsers /\ [][NextAnalytics]_vars

(***************************************************************************)
(* SpecStorage: the storage requests the tab builds for an upload and for  *)
(* a view, sent by either user, and arbitrary requests by any caller.      *)
(***************************************************************************)
\* file.name of a dropped file, and the filename column of a viewed row.
DroppedNames == {<<"w">>, <<"b", "/", "w">>}

ViewedNames ==
  {UploadFileName(t, n) : t \in 1..MaxClock, n \in DroppedNames} \cup {<<>>, <<"b">>}

\* The object names arbitrary requests use.
DirectNames ==
  {<<"a", "/", "w">>, <<"b", "/", "w">>, <<"w">>, <<"/", "a", "/", "w">>}

ServeStorage(result) ==
  /\ Cardinality(result.objects) <= MaxObjects
  /\ objects' = result.objects
  /\ resp' = result.resp
  /\ UNCHANGED <<dbVars, clientVars>>

\* FileUpload.onDrop's storage request, from the tab of user u.
ClientUpload(u, now, name) ==
  ServeStorage(StorageUpload(u, "FileUpload", UploadPath(u, UploadFileName(now, name)), "x"))

\* ExcelDataViewer.loadFileData's storage request, from the tab of user u.
ClientView(u, fileName) ==
  ServeStorage(StorageDownload(u, "ExcelDataViewer", ViewPath(u, fileName)))

DirectUpload(c, name) == ServeStorage(StorageUpload(c, "direct", name, "x"))

DirectDownload(c, name) == ServeStorage(StorageDownload(c, "direct", name))

DirectRemove(c, name) == ServeStorage(StorageRemove(c, "direct", name))

DirectOverwrite(c, name) == ServeStorage(StorageOverwrite(c, "direct", name, "y"))

NextStorage ==
  \/ \E u \in UserIds, t \in 1..MaxClock, n \in DroppedNames : ClientUpload(u, t, n)
  \/ \E u \in UserIds, n \in ViewedNames : ClientView(u, n)
  \/ \E c \in Callers, n \in DirectNames : DirectUpload(c, n)
  \/ \E c \in Callers, n \in DirectNames : DirectDownload(c, n)
  \/ \E c \in Callers, n \in DirectNames : DirectRemove(c, n)
  \/ \E c \in Callers, n \in DirectNames : DirectOverwrite(c, n)

SpecStorage == InitTwoUsers /\ [][NextStorage]_vars

(***************************************************************************)
(* The browser tab: Dashboard, FileUpload, FileList and ExcelDataViewer.   *)
(* A handler runs until its next await; `pending` holds the requests that  *)
(* are in flight, each with what its handler needs to continue.  The       *)
(* backend serves a pending request, or the request fails on the way, and  *)
(* the handler continues in the same step.                                 *)
(***************************************************************************)
ValidTypesMutant ==
  {"application/vnd.openxmlformats-officedocument.spreadsheetml.sheet",
   "application/vnd.ms-excel", "text/csv", "text/plain"}

ValidTypes ==
  {"application/vnd.openxmlformats-officedocument.spreadsheetml.sheet",
   "application/vnd.ms-excel", "text/csv"}

\* A cell as sheet_to_json gives it: a string, a number, or nothing where the
\* row has no cell (undefined).
Str(s) == [type |-> "string", v |-> s]
Num(n) == [type |-> "number", v |-> n]
Hole == [type |-> "undefined", v |-> 0]

\* What a file holds.  XLSX.read throws on `corrupt`; otherwise `sheets` is the
\* workbook: per sheet its name and what sheet_to_json(.., {header: 1}) gives,
\* a list of rows, each a list of cells.
Workbook ==
  [corrupt |-> FALSE,
   sheets |-> << [name |-> "S1", json |-> << <<Str("k"), Str(" "), Str("v")>>,
                                             <<Str("x"), Str("y")>> >>],
                 [name |-> "S2", json |-> <<>>],
                 [name |-> "S3", json |-> << <<Str("k")>> >>] >>]

Garbage == [corrupt |-> TRUE, sheets |-> <<>>]

\* The File objects the user can drop.
FileObject(name, type, size, content) ==
  [name |-> name, type |-> type, size |-> size, content |-> content]

DroppedFiles ==
  {FileObject(<<"w">>, "application/vnd.ms-excel", 2, Workbook),
   FileObject(<<"w">>, "text/csv", 1, Garbage),
   FileObject(<<"w">>, "text/plain", 1, Garbage)}

\* JavaScript truthiness: undefined, '' and 0 are falsy.
Truthy(cell) ==
  /\ cell.type # "undefined"
  /\ cell.type = "string" => cell.v # ""
  /\ cell.type = "number" => cell.v # 0

\* String(cell), the property name `obj[header]` uses and what toString gives.
CellText(cell) ==
  IF cell.type = "string" THEN cell.v
  ELSE IF cell.type = "number" THEN ToString(cell.v)
  ELSE "undefined"

\* `row[index] || ''`
OrEmpty(row, index) ==
  IF index <= Len(row) /\ Truthy(row[index]) THEN row[index] ELSE Str("")

\* `h && h.toString().trim() !== ''`
NamedColumn(h) == Truthy(h) /\ CellText(h) \notin {"", " "}

\* headers.forEach((header, index) => obj[header] = row[index] || ''): forEach
\* passes over the places of the header row that have no cell, and a header
\* that occurs twice keeps the value of its last occurrence.
FormatRow(headers, row) ==
  [h \in {CellText(headers[i]) : i \in {j \in DOMAIN headers : headers[j] # Hole}} |->
     LET last == CHOOSE i \in DOMAIN headers :
                   /\ headers[i] # Hole
                   /\ CellText(headers[i]) = h
                   /\ \A j \in DOMAIN headers : CellText(headers[j]) = h => j <= i
     IN OrEmpty(row, last)]

SheetData(name, json) ==
  LET headers == Head(json)
      rows == Tail(json)
  IN [name |-> name,
      data |-> [i \in DOMAIN rows |-> FormatRow(headers, rows[i])],
      columns |-> SelectSeq(headers, NamedColumn)]

\* The sheetsData of parseExcelFile: the sheets that have at least one row,
\* in workbook order.
RECURSIVE ParseExcelFile(_)
ParseExcelFile(workbookSheets) ==
  IF workbookSheets = <<>> THEN <<>>
  ELSE LET sheet == Head(workbookSheets)
       IN (IF Len(sheet.json) > 0 THEN <<SheetData(sheet.name, sheet.json)>> ELSE <<>>)
          \o ParseExcelFile(Tail(workbookSheets))

AnalyticsPayloadMutant(uid, fileId, sheet) ==
  AnalyticsRow(Default, fileId, uid, sheet.name,
               [columns |-> sheet.columns,
                rowCount |-> Len(sheet.data),
                sampleData |-> SubSeq(sheet.data, 1, Len(sheet.data))])

\* The row saveAnalyticsData gives to .upsert for one sheet.
AnalyticsPayload(uid, fileId, sheet) ==
  AnalyticsRow(Default, fileId, uid, sheet.name,
               [columns |-> sheet.columns,
                rowCount |-> Len(sheet.data),
                sampleData |-> SubSeq(sheet.data, 1, IF Len(sheet.data) < 5
                                                     THEN Len(sheet.data) ELSE 5)])

\* .order('upload_date', { ascending: false })
RECURSIVE OrderByUploadDateDesc(_)
OrderByUploadDateDesc(rows) ==
  IF rows = {} THEN <<>>
  ELSE LET f == CHOOSE f \in rows : \A g \in rows : g.upload_date <= f.upload_date
       IN <<f>> \o OrderByUploadDateDesc(rows \ {f})

\* data.reduce((acc, file) => acc + file.file_size, 0)
RECURSIVE SumFileSize(_)
SumFileSize(data) ==
  IF data = <<>> THEN 0 ELSE Head(data).file_size + SumFileSize(Tail(data))

\* A request in flight.  inst tells the running handlers apart, op is the
\* handler that awaits it, nth counts the requests that handler run has issued.
Request(inst, op, kind, nth, fileName, path, dropped, row, payload) ==
  [inst |-> inst, op |-> op, kind |-> kind, nth |-> nth, fileName |-> fileName,
   path |-> path,
   dropped |-> dropped, row |-> row, payload |-> payload]

FreshInst(reqs) ==
  CHOOSE i \in 1..(Cardinality(reqs) + 1) : \A r \in reqs : r.inst # i

\* `await`: the handler that awaited r goes on and issues `next`.
AwaitMutant(r, next) == (pending \ {q \in {r} : next = {}}) \cup next

Await(r, next) == (pending \ {r}) \cup next

\* The toast titles of the catch blocks.
UploadCatch == {"Upload failed"}
DownloadCatch == {"Download failed"}
DeleteCatch == {"Delete failed"}
FetchCatchMutant == {}
FetchCatch == {"Error"}
LoadCatch == {"Error"}
ParseCatch == {"Error"}
\* saveAnalyticsData: console.error only.
SaveCatch == {}

\* fetchFiles() called with `reqs` in flight: the requests in flight after it
\* reached its await.
FetchFiles(reqs) ==
  IF user = Null THEN reqs
  ELSE reqs \cup {Request(FreshInst(reqs), "fetchFiles", "select", 1,
                          <<>>, <<>>, <<>>, <<>>, <<>>)}

\* saveAnalyticsData(sheetsData): one upsert per sheet, all issued before
\* Promise.all is awaited.
SaveAnalyticsData(inst, fileId, sheetsData) ==
  IF user = Null THEN {}
  ELSE {Request(inst, "saveAnalyticsData", "upsert", i, <<>>, <<>>, <<>>, <<>>,
                <<AnalyticsPayload(user, fileId, sheetsData[i])>>) :
          i \in DOMAIN sheetsData}

\* The second request of onDrop, issued after the upload returned.
UploadInsertMutant(r) == {}

UploadInsert(r) ==
  {Request(r.inst, "onDrop", "insert", r.nth + 1, r.fileName, r.path,
           r.dropped, <<>>, <<>>)}

\* The handler runs that still await the backend are at most MaxPending; a
\* response on its way back to the tab is no request any more.
Room(reqs) == Cardinality({r.inst : r \in {q \in reqs : q.kind # "rows"}}) <= MaxPending

backendVars == <<authUsers, profiles, excel_files, analytics_data, objects, resp>>
uploadVars == <<uploading, uploadProgress>>
dashboardVars == <<files, totalFiles, totalSize, loading, selectedFile>>
chartVars == <<tab, xAxis, yAxis, chartData>>
viewerVars == <<sheets, activeSheet, viewerLoading, tab, xAxis, yAxis, chartData>>

(***************************************************************************)
(* FileUpload.onDrop.                                                      *)
(***************************************************************************)
OnDrop(acceptedFiles, now) ==
  /\ ~uploading
  /\ Len(selectedFile) = 0
  /\ IF user = Null \/ Len(acceptedFiles) = 0
     THEN /\ event' = Event("onDrop", FALSE, {}, {})
          /\ UNCHANGED <<uploadVars, pending>>
     ELSE IF acceptedFiles[1].type \notin ValidTypes
     THEN /\ event' = Event("onDrop", FALSE, {"Invalid file type"}, {})
          /\ UNCHANGED <<uploadVars, pending>>
     ELSE LET file == acceptedFiles[1]
              fileName == UploadFileName(now, file.name)
              filePath == UploadPath(user, fileName)
              reqs == pending \cup {Request(FreshInst(pending), "onDrop", "upload", 1,
                                            fileName, filePath, <<file>>, <<>>, <<>>)}
          IN /\ Room(reqs)
             /\ uploading' = TRUE
             /\ uploadProgress' = 0
             /\ pending' = reqs
             /\ event' = Event("onDrop", FALSE, {}, {})
  /\ UNCHANGED <<backendVars, user, deletingId, dashboardVars, viewerVars>>

OnDropFailedMutant(r) ==
  /\ uploading' = uploading
  /\ uploadProgress' = 0
  /\ pending' = Await(r, {r})
  /\ event' = Event("onDrop", TRUE, UploadCatch, {})

\* `catch` and `finally` of onDrop.
OnDropFailed(r) ==
  /\ uploading' = FALSE
  /\ uploadProgress' = 0
  /\ pending' = Await(r, {})
  /\ event' = Event("onDrop", TRUE, UploadCatch, {})

\* The storage upload returns.
OnDropUploaded(r, fail) ==
  /\ r.op = "onDrop" /\ r.kind = "upload"
  /\ LET res == StorageUpload(user, "FileUpload", r.path, r.dropped[1].content)
     IN /\ fail \/ Cardinality(res.objects) <= MaxObjects
        /\ objects' = IF fail THEN objects ELSE res.objects
        /\ IF fail \/ res.resp.error
           THEN OnDropFailed(r)
           ELSE /\ uploadProgress' = 50
                /\ pending' = Await(r, UploadInsert(r))
                /\ event' = Event("onDrop", FALSE, {}, {})
                /\ UNCHANGED uploading
  /\ UNCHANGED <<authUsers, profiles, excel_files, analytics_data, resp, user,
                 deletingId, dashboardVars, viewerVars>>

OnDropInsertedMutant(r, fail) ==
  /\ r.op = "onDrop" /\ r.kind = "insert"
  /\ fail \/ (FileIds \ {f.id : f \in excel_files} # {} /\ Now <= MaxFileIds)
  /\ LET file == r.dropped[1]
         res == DbInsertFile(user, FileRow(Default, user, r.fileName, file.name,
                                           file.size, r.path, "uploaded", 0))
         sheetsData == IF file.content.corrupt THEN <<>>
                       ELSE ParseExcelFile(file.content.sheets)
     IN /\ excel_files' = IF fail THEN excel_files ELSE res.excel_files
        /\ IF fail \/ res.resp.error
           THEN OnDropFailed(r) /\ UNCHANGED analytics_data
           ELSE /\ uploading' = FALSE
                /\ uploadProgress' = 0
                /\ pending' = FetchFiles(Await(r, {}))
                /\ event' = Event("onDrop", FALSE, {"Success"}, {"onUploadComplete"})
                /\ analytics_data' =
                     {a \in analytics_data : a.id # "a1"} \cup
                     {[AnalyticsPayload(user, f.id, sheetsData[i]) EXCEPT !.id = "a1"] :
                        f \in res.excel_files \ excel_files,
                        i \in DOMAIN sheetsData \cap {1}}
  /\ UNCHANGED <<authUsers, profiles, objects, resp, user,
                 deletingId, dashboardVars, viewerVars>>

\* The insert of the metadata row returns.
OnDropInserted(r, fail) ==
  /\ r.op = "onDrop" /\ r.kind = "insert"
  /\ fail \/ (FileIds \ {f.id : f \in excel_files} # {} /\ Now <= MaxFileIds)
  /\ LET file == r.dropped[1]
         res == DbInsertFile(user, FileRow(Default, user, r.fileName, file.name,
                                           file.size, r.path, "uploaded", 0))
     IN /\ excel_files' = IF fail THEN excel_files ELSE res.excel_files
        /\ IF fail \/ res.resp.error
           THEN OnDropFailed(r)
           ELSE /\ uploading' = FALSE
                /\ uploadProgress' = 0
                /\ pending' = FetchFiles(Await(r, {}))
                /\ event' = Event("onDrop", FALSE, {"Success"}, {"onUploadComplete"})
  /\ UNCHANGED <<authUsers, profiles, analytics_data, objects, resp, user,
                 deletingId, dashboardVars, viewerVars>>

(***************************************************************************)
(* Dashboard.fetchFiles.                                                   *)
(***************************************************************************)
FetchFilesDoneMutant(r, fail) ==
  /\ r.op = "fetchFiles"
  /\ LET res == DbSelectFiles(user, [id |-> AnyValue, user_id |-> user])
         data == OrderByUploadDateDesc(res.resp.read)
     IN /\ files' = IF fail \/ res.resp.error THEN files ELSE data
        /\ event' = Event("fetchFiles", fail \/ res.resp.error,
                          IF fail \/ res.resp.error THEN FetchCatch ELSE {}, {})
  /\ loading' = FALSE
  /\ pending' = Await(r, {})
  /\ UNCHANGED <<backendVars, user, uploadVars, deletingId, selectedFile, viewerVars,
                 totalFiles, totalSize>>

FetchFilesDone(r, fail) ==
  /\ r.op = "fetchFiles"
  /\ LET res == DbSelectFiles(user, [id |-> AnyValue, user_id |-> user])
         data == OrderByUploadDateDesc(res.resp.read)
     IN IF fail \/ res.resp.error
        THEN /\ event' = Event("fetchFiles", TRUE, FetchCatch, {})
             /\ UNCHANGED <<files, totalFiles, totalSize>>
        ELSE /\ files' = data
             /\ totalFiles' = Len(data)
             /\ totalSize' = SumFileSize(data)
             /\ event' = Event("fetchFiles", FALSE, {}, {})
  /\ loading' = FALSE
  /\ pending' = Await(r, {})
  /\ UNCHANGED <<backendVars, user, uploadVars, deletingId, selectedFile, viewerVars>>

\* The two halves of FetchFilesDone.  The backend runs the select of a
\* fetchFiles request: the rows it finds travel back in the response.
FetchFilesServed(r) ==
  /\ r.op = "fetchFiles" /\ r.kind = "select"
  /\ Cardinality({q \in pending : q.kind = "rows"}) < MaxResponses
  /\ LET res == DbSelectFiles(user, [id |-> AnyValue, user_id |-> user])
         data == OrderByUploadDateDesc(res.resp.read)
     IN pending' = Await(r, {[r EXCEPT !.kind = "rows", !.payload = data]})
  /\ event' = NoEvent
  /\ UNCHANGED <<backendVars, user, uploadVars, deletingId, dashboardVars, viewerVars>>

\* The response of a fetchFiles request reaches the tab, whichever responses
\* came before it: `if (error) throw error`, the three setters, the catch and
\* the finally of fetchFiles.
FetchFilesReturned(r, fail) ==
  /\ r.op = "fetchFiles" /\ r.kind = "rows"
  /\ IF fail
     THEN /\ event' = Event("fetchFiles", TRUE, FetchCatch, {})
          /\ UNCHANGED <<files, totalFiles, totalSize>>
     ELSE /\ files' = r.payload
          /\ totalFiles' = Len(r.payload)
          /\ totalSize' = SumFileSize(r.payload)
          /\ event' = Event("fetchFiles", FALSE, {}, {})
  /\ loading' = FALSE
  /\ pending' = Await(r, {})
  /\ UNCHANGED <<backendVars, user, uploadVars, deletingId, selectedFile, viewerVars>>

(***************************************************************************)
(* FileList.handleDownload and FileList.handleDelete.                      *)
(***************************************************************************)
HandleDownload(file) ==
  /\ Len(selectedFile) = 0
  /\ LET reqs == pending \cup {Request(FreshInst(pending), "handleDownload",
                                       "download", 1, <<>>, file.file_path,
                                       <<>>, <<file>>, <<>>)}
     IN Room(reqs) /\ pending' = reqs
  /\ event' = Event("handleDownload", FALSE, {}, {})
  /\ UNCHANGED <<backendVars, user, uploadVars, deletingId, dashboardVars, viewerVars>>

HandleDownloadDone(r, fail) ==
  /\ r.op = "handleDownload"
  /\ LET res == StorageDownload(user, "FileList", r.path)
     IN event' = IF fail \/ res.resp.error
                 THEN Event("handleDownload", TRUE, DownloadCatch, {})
                 ELSE Event("handleDownload", FALSE, {"Success"}, {})
  /\ pending' = Await(r, {})
  /\ UNCHANGED <<backendVars, user, uploadVars, deletingId, dashboardVars, viewerVars>>

HandleDeleteMutant(file) ==
  /\ Len(selectedFile) = 0
  /\ deletingId # file.id
  /\ LET reqs == pending \cup {Request(FreshInst(pending), "handleDelete",
                                       "remove", 1, <<>>, file.file_path,
                                       <<>>, <<file>>, <<>>)}
     IN /\ Room(reqs)
        /\ pending' = reqs
        /\ deletingId' = file.id
  /\ event' = Event("handleDelete", FALSE, {}, {})
  /\ UNCHANGED <<backendVars, user, uploadVars, dashboardVars, viewerVars>>

HandleDelete(file) ==
  /\ Len(selectedFile) = 0
  /\ deletingId # file.id
  /\ IF user = Null
     THEN UNCHANGED <<deletingId, pending>>
     ELSE LET reqs == pending \cup {Request(FreshInst(pending), "handleDelete",
                                            "remove", 1, <<>>, file.file_path,
                                            <<>>, <<file>>, <<>>)}
          IN /\ Room(reqs)
             /\ pending' = reqs
             /\ deletingId' = file.id
  /\ event' = Event("handleDelete", FALSE, {}, {})
  /\ UNCHANGED <<backendVars, user, uploadVars, dashboardVars, viewerVars>>

\* `catch` and `finally` of handleDelete.
HandleDeleteFailed(r) ==
  /\ deletingId' = Null
  /\ pending' = Await(r, {})
  /\ event' = Event("handleDelete", TRUE, DeleteCatch, {})

\* The storage remove returns.
HandleDeleteRemoved(r, fail) ==
  /\ r.op = "handleDelete" /\ r.kind = "remove"
  /\ LET res == StorageRemove(user, "FileList", r.path)
     IN /\ objects' = IF fail THEN objects ELSE res.objects
        /\ IF fail \/ res.resp.error
           THEN HandleDeleteFailed(r)
           ELSE /\ pending' = Await(r, {Request(r.inst, "handleDelete", "delete",
                                                r.nth + 1, <<>>, r.path, <<>>,
                                                r.row, <<>>)})
                /\ event' = Event("handleDelete", FALSE, {}, {})
                /\ UNCHANGED deletingId
  /\ UNCHANGED <<authUsers, profiles, excel_files, analytics_data, resp, user,
                 uploadVars, dashboardVars, viewerVars>>

\* The delete of the metadata row returns.
HandleDeleteDeleted(r, fail) ==
  /\ r.op = "handleDelete" /\ r.kind = "delete"
  /\ LET res == DbDeleteFiles(user, [id |-> r.row[1].id, user_id |-> user])
     IN /\ excel_files' = IF fail THEN excel_files ELSE res.excel_files
        /\ analytics_data' = IF fail THEN analytics_data ELSE res.analytics_data
        /\ IF fail \/ res.resp.error
           THEN HandleDeleteFailed(r)
           ELSE /\ deletingId' = Null
                /\ pending' = FetchFiles(Await(r, {}))
                /\ event' = Event("handleDelete", FALSE, {"Success"}, {"onFileDeleted"})
  /\ UNCHANGED <<authUsers, profiles, objects, resp, user, uploadVars,
                 dashboardVars, viewerVars>>

(***************************************************************************)
(* ChartGenerator, mounted in the "charts" tab of ExcelDataViewer.         *)
(***************************************************************************)
\* processedData.slice(0, 20)
ChartLimit == 20

Min(a, b) == IF a <= b THEN a ELSE b

\* row[column]: undefined when the row has no such property.
RowCell(row, column) == IF column \in DOMAIN row THEN row[column] ELSE Hole

\* The texts of the workbooks that start with a number, and the number
\* parseFloat reads from them.
FloatTexts == [s \in {"7", "7x"} |-> 7]

\* The texts of the workbooks that Number() converts, and their numbers.
NumberTexts == [s \in {"", " ", "7"} |-> IF s = "7" THEN 7 ELSE 0]

\* parseFloat(cell): a number or NaN.
ParseFloat(cell) ==
  IF cell.type = "number" THEN [nan |-> FALSE, n |-> cell.v]
  ELSE IF cell.type = "string" /\ cell.v \in DOMAIN FloatTexts
  THEN [nan |-> FALSE, n |-> FloatTexts[cell.v]]
  ELSE [nan |-> TRUE, n |-> 0]

\* `parseFloat(row[yAxis]) || 0`: NaN and 0 are falsy.
YValue(row, y) ==
  LET number == ParseFloat(RowCell(row, y))
  IN IF number.nan THEN 0 ELSE number.n

\* isNaN(value) of a value that is a number, a string or undefined; the
\* numbers of an item are never NaN.
IsNaN(cell) ==
  IF cell.type = "number" THEN FALSE
  ELSE IF cell.type = "string" THEN cell.v \notin DOMAIN NumberTexts
  ELSE TRUE

\* The object literal of data.map: [xAxis], [yAxis], name, value are written
\* in this order and a later property replaces an earlier one of its name.
ChartItem(row, x, y) ==
  [key \in {x, y, "name", "value"} |->
     IF key = "value" THEN Num(YValue(row, y))
     ELSE IF key = "name" THEN RowCell(row, x)
     ELSE IF key = y THEN Num(YValue(row, y))
     ELSE RowCell(row, x)]

\* generateChartData: the value it passes to setChartData.
GenerateChartData(data, x, y) ==
  LET Kept(item) == Truthy(item[x]) /\ ~IsNaN(item[y])
      processedData == SelectSeq([i \in DOMAIN data |-> ChartItem(data[i], x, y)], Kept)
  IN SubSeq(processedData, 1, Min(ChartLimit, Len(processedData)))

\* The effect on [xAxis, yAxis, data]: chartData after it has run.
ChartEffect(x, y, data) ==
  IF x # "" /\ y # "" /\ Len(data) > 0
  THEN GenerateChartData(data, x, y)
  ELSE chartData

\* Whether that effect calls generateChartData.
ChartCalls(x, y, data) ==
  IF x # "" /\ y # "" /\ Len(data) > 0 THEN {"generateChartData"} ELSE {}

currentSheet == sheets[activeSheet + 1]

\* The options of both axis Selects: every column of the sheet.
AxisOptions == {CellText(currentSheet.columns[i]) : i \in DOMAIN currentSheet.columns}

\* A tab trigger of the viewer: the content of the tab left unmounts and the
\* content of the tab entered mounts with its initial state.
SetTab(value) ==
  /\ Len(selectedFile) > 0
  /\ sheets # <<>>
  /\ value # tab
  /\ tab' = value
  /\ xAxis' = ""
  /\ yAxis' = ""
  /\ chartData' = <<>>
  /\ event' = Event("setTab", FALSE, {}, {})
  /\ UNCHANGED <<backendVars, user, uploadVars, deletingId, dashboardVars,
                 sheets, activeSheet, viewerLoading, pending>>

\* onValueChange={setXAxis} and the effect that follows the render.
SetXAxis(column) ==
  /\ tab = "charts"
  /\ sheets # <<>>
  /\ column \in AxisOptions
  /\ column # xAxis
  /\ xAxis' = column
  /\ chartData' = ChartEffect(column, yAxis, currentSheet.data)
  /\ event' = Event("setXAxis", FALSE, {}, ChartCalls(column, yAxis, currentSheet.data))
  /\ UNCHANGED <<backendVars, user, uploadVars, deletingId, dashboardVars,
                 sheets, activeSheet, viewerLoading, tab, yAxis, pending>>

\* onValueChange={setYAxis} and the effect that follows the render.
SetYAxis(column) ==
  /\ tab = "charts"
  /\ sheets # <<>>
  /\ column \in AxisOptions
  /\ column # yAxis
  /\ yAxis' = column
  /\ chartData' = ChartEffect(xAxis, column, currentSheet.data)
  /\ event' = Event("setYAxis", FALSE, {}, ChartCalls(xAxis, column, currentSheet.data))
  /\ UNCHANGED <<backendVars, user, uploadVars, deletingId, dashboardVars,
                 sheets, activeSheet, viewerLoading, tab, xAxis, pending>>

(***************************************************************************)
(* Dashboard's viewer tab and ExcelDataViewer.                             *)
(***************************************************************************)
\* The callback the Dashboard passes as onFileView, setSelectedFile, called
\* with a listed file: the viewer mounts and its effect runs loadFileData.
\* (FileList has no control that calls it, see SpecList; the specifications
\* with this action are those of the Dashboard with the callback called.)  The viewer is opened again only after the
\* download of the view before has returned, so that a response always finds
\* the viewer that asked or none.
ViewFile(file) ==
  /\ Len(selectedFile) = 0
  /\ \A r \in pending : r.op # "loadFileData"
  /\ selectedFile' = <<file>>
  /\ sheets' = <<>>
  /\ activeSheet' = 0
  /\ IF user = Null
     THEN UNCHANGED <<viewerLoading, pending>>
     ELSE LET reqs == pending \cup {Request(FreshInst(pending), "loadFileData",
                                            "download", 1, file.filename,
                                            ViewPath(user, file.filename),
                                            <<>>, <<file>>, <<>>)}
          IN /\ Room(reqs)
             /\ pending' = reqs
             /\ viewerLoading' = TRUE
  /\ tab' = "preview"
  /\ xAxis' = ""
  /\ yAxis' = ""
  /\ chartData' = <<>>
  /\ event' = Event("loadFileData", FALSE, {}, {})
  /\ UNCHANGED <<backendVars, user, uploadVars, deletingId, files, totalFiles,
                 totalSize, loading>>

\* "Back to Files": setSelectedFile(null) unmounts the viewer; its state is
\* gone, its requests stay in flight.
BackToFiles ==
  /\ Len(selectedFile) > 0
  /\ selectedFile' = <<>>
  /\ sheets' = <<>>
  /\ activeSheet' = 0
  /\ viewerLoading' = FALSE
  /\ tab' = "preview"
  /\ xAxis' = ""
  /\ yAxis' = ""
  /\ chartData' = <<>>
  /\ event' = Event("setSelectedFile", FALSE, {}, {})
  /\ UNCHANGED <<backendVars, user, uploadVars, deletingId, files, totalFiles,
                 totalSize, loading, pending>>

SetActiveSheetMutant(index) ==
  /\ index \in DOMAIN sheets
  /\ index # activeSheet
  /\ activeSheet' = index
  /\ event' = Event("setActiveSheet", FALSE, {}, {})
  /\ UNCHANGED <<backendVars, user, uploadVars, deletingId, dashboardVars,
                 sheets, viewerLoading, chartVars, pending>>

\* The sheet buttons: setActiveSheet(index), index counted from 0 in the
\* source and from 1 in a sequence here.  A mounted ChartGenerator gets the
\* data of the new sheet and its effect runs.
SetActiveSheet(index) ==
  /\ index \in DOMAIN sheets
  /\ index - 1 # activeSheet
  /\ activeSheet' = index - 1
  /\ IF tab = "charts"
     THEN /\ chartData' = ChartEffect(xAxis, yAxis, sheets[index].data)
          /\ event' = Event("setActiveSheet", FALSE, {},
                            ChartCalls(xAxis, yAxis, sheets[index].data))
     ELSE /\ UNCHANGED chartData
          /\ event' = Event("setActiveSheet", FALSE, {}, {})
  /\ UNCHANGED <<backendVars, user, uploadVars, deletingId, dashboardVars,
                 sheets, viewerLoading, tab, xAxis, yAxis, pending>>

\* The download of loadFileData returns; parseExcelFile runs on the content
\* and starts saveAnalyticsData without awaiting it.  A viewer that is gone
\* keeps no state.
LoadFileDataDone(r, fail) ==
  /\ r.op = "loadFileData"
  /\ LET res == StorageDownload(user, "ExcelDataViewer", r.path)
         mounted == Len(selectedFile) > 0
         content == (CHOOSE o \in res.resp.read : TRUE).content
     IN IF fail \/ res.resp.error
        THEN /\ event' = Event("loadFileData", TRUE, LoadCatch, {})
             /\ pending' = Await(r, {})
             /\ UNCHANGED sheets
        ELSE IF content.corrupt
        THEN /\ event' = Event("parseExcelFile", TRUE, ParseCatch, {})
             /\ pending' = Await(r, {})
             /\ UNCHANGED sheets
        ELSE LET sheetsData == ParseExcelFile(content.sheets)
                 reqs == Await(r, SaveAnalyticsData(r.inst, r.row[1].id, sheetsData))
             IN /\ Room(reqs)
                /\ sheets' = IF mounted THEN sheetsData ELSE sheets
                /\ pending' = reqs
                /\ event' = Event("parseExcelFile", FALSE, {}, {"saveAnalyticsData"})
  /\ viewerLoading' = FALSE
  /\ UNCHANGED <<backendVars, user, uploadVars, deletingId, dashboardVars, activeSheet,
                 chartVars>>

\* One upsert of saveAnalyticsData returns.
SaveAnalyticsDataDone(r, fail) ==
  /\ r.op = "saveAnalyticsData"
  /\ fail \/ AnalyticsIds \ {a.id : a \in analytics_data} # {}
  /\ LET res == DbUpsertAnalytics(user, r.payload[1])
     IN /\ analytics_data' = IF fail THEN analytics_data ELSE res.analytics_data
        /\ event' = Event("saveAnalyticsData", fail \/ res.resp.error, SaveCatch, {})
  /\ pending' = Await(r, {})
  /\ UNCHANGED <<authUsers, profiles, excel_files, objects, resp, user, uploadVars,
                 deletingId, dashboardVars, viewerVars>>

(***************************************************************************)
(* SpecApp: one signed-in or signed-out tab against the backend.           *)
(***************************************************************************)
\* The Dashboard has mounted: its effect has called fetchFiles.
InitApp ==
  /\ authUsers = UserIds
  /\ profiles = {ProfileRow("p1", "a", Null), ProfileRow("p2", "b", Null)}
  /\ excel_files = {}
  /\ analytics_data = {}
  /\ objects = {}
  /\ resp = NoResponse
  /\ user \in {Null, "a"}
  /\ uploading = FALSE
  /\ uploadProgress = 0
  /\ deletingId = Null
  /\ files = <<>>
  /\ totalFiles = 0
  /\ totalSize = 0
  /\ loading = TRUE
  /\ selectedFile = <<>>
  /\ sheets = <<>>
  /\ activeSheet = 0
  /\ viewerLoading = FALSE
  /\ tab = "preview"
  /\ xAxis = ""
  /\ yAxis = ""
  /\ chartData = <<>>
  /\ pending = FetchFiles({})
  /\ event = NoEvent

Listed == {files[i] : i \in DOMAIN files}

NextApp ==
  \/ \E acceptedFiles \in {<<>>} \cup {<<f>> : f \in DroppedFiles}, now \in 1..MaxClock :
       OnDrop(acceptedFiles, now)
  \/ \E r \in pending, fail \in BOOLEAN : OnDropUploaded(r, fail)
  \/ \E r \in pending, fail \in BOOLEAN : OnDropInserted(r, fail)
  \/ \E r \in pending, fail \in BOOLEAN : FetchFilesDone(r, fail)
  \/ \E file \in Listed : HandleDownload(file)
  \/ \E r \in pending, fail \in BOOLEAN : HandleDownloadDone(r, fail)
  \/ \E file \in Listed : HandleDelete(file)
  \/ \E r \in pending, fail \in BOOLEAN : HandleDeleteRemoved(r, fail)
  \/ \E r \in pending, fail \in BOOLEAN : HandleDeleteDeleted(r, fail)
  \/ \E file \in Listed : ViewFile(file)
  \/ BackToFiles
  \/ \E index \in DOMAIN sheets : SetActiveSheet(index)
  \/ \E r \in pending, fail \in BOOLEAN : SaveAnalyticsDataDone(r, fail)
  \/ \E r \in pending, fail \in BOOLEAN : LoadFileDataDone(r, fail)

SpecApp == InitApp /\ [][NextApp]_vars

(***************************************************************************)
(* SpecParse: the viewer on an uploaded workbook, for a range of workbooks. *)
(***************************************************************************)
HeaderCells == {Hole, Str("k"), Str(" "), Num(0)}

DataCells == {Hole, Str("x"), Num(0)}

\* The rows of at most MaxColumns cells; a row ends with a cell.
RowsOf(cells) ==
  UNION {{row \in [1..n -> cells] : n > 0 => row[n] # Hole} : n \in 0..MaxColumns}

\* A sheet with one header row and six numbered rows.
Ledger ==
  << <<Str("k"), Str("n")>> >>
    \o [i \in 1..6 |-> <<Str("x"), Num(i)>>]

\* Sheet S1 is empty, a header row, or a header row and one row; sheet S2
\* follows it.
ParsedWorkbooks ==
  LET jsons == {<<>>} \cup {<<h>> : h \in RowsOf(HeaderCells)}
                      \cup {<<h, r>> : h \in RowsOf(HeaderCells), r \in RowsOf(DataCells)}
  IN {[corrupt |-> FALSE,
       sheets |-> << [name |-> "S1", json |-> j], [name |-> "S2", json |-> Ledger] >>] :
        j \in jsons}

\* User "a" has uploaded one workbook and the list shows it; or the tab has
\* no user and lists nothing.
InitParse ==
  /\ authUsers = UserIds
  /\ profiles = {ProfileRow("p1", "a", Null), ProfileRow("p2", "b", Null)}
  /\ \E content \in ParsedWorkbooks :
       LET fileName == UploadFileName(1, <<"w">>)
           row == FileRow("f1", "a", fileName, <<"w">>, 2,
                          UploadPath("a", fileName), "uploaded", 1)
       IN /\ excel_files = {row}
          /\ objects = {ObjectRow(row.file_path, content)}
          /\ user \in {Null, "a"}
          /\ files = IF user = Null THEN <<>> ELSE <<row>>
          /\ totalFiles = Len(files)
          /\ totalSize = SumFileSize(files)
  /\ analytics_data = {}
  /\ resp = NoResponse
  /\ uploading = FALSE
  /\ uploadProgress = 0
  /\ deletingId = Null
  /\ loading = FALSE
  /\ selectedFile = <<>>
  /\ sheets = <<>>
  /\ activeSheet = 0
  /\ viewerLoading = FALSE
  /\ tab = "preview"
  /\ xAxis = ""
  /\ yAxis = ""
  /\ chartData = <<>>
  /\ pending = {}
  /\ event = NoEvent

NextParse ==
  \/ \E file \in Listed : ViewFile(file)
  \/ BackToFiles
  \/ \E index \in DOMAIN sheets : SetActiveSheet(index)
  \/ \E r \in pending, fail \in BOOLEAN : LoadFileDataDone(r, fail)
  \/ \E r \in pending, fail \in BOOLEAN : SaveAnalyticsDataDone(r, fail)

SpecParse == InitParse /\ [][NextParse]_vars

(***************************************************************************)
(* SpecChart: the viewer and its chart tab on an uploaded workbook.        *)
(***************************************************************************)
\* Sheet S1 has columns k and n and more rows than a chart takes: a row
\* without k, rows whose n is a word, zero, or a number followed by a letter.
\* Sheet S2 has columns name and n.  The second workbook has these columns
\* in its first sheet, an empty sheet, and a sheet of the header row alone.
Sales ==
  << <<Str("k"), Str("n")>> >>
    \o [i \in 1..(ChartLimit + 2) |->
          IF i = 2 THEN <<Hole, Num(2)>>
          ELSE IF i = 3 THEN <<Str("x"), Str("x")>>
          ELSE IF i = 4 THEN <<Str("x"), Num(0)>>
          ELSE IF i = 5 THEN <<Str("7"), Str("7x")>>
          ELSE <<Str("x"), Num(i)>>]

Names ==
  << <<Str("name"), Str("n")>>, <<Str("x"), Num(1)>>, <<Str("7"), Str("x")>> >>

ChartWorkbooks ==
  {[corrupt |-> FALSE,
    sheets |-> << [name |-> "S1", json |-> Sales], [name |-> "S2", json |-> Names] >>],
   [corrupt |-> FALSE,
    sheets |-> << [name |-> "S1", json |-> Names], [name |-> "S2", json |-> <<>>],
                  [name |-> "S3", json |-> <<Head(Names)>>] >>]}

\* User "a" has uploaded one workbook and the list shows it.
InitChart ==
  /\ authUsers = UserIds
  /\ profiles = {ProfileRow("p1", "a", Null), ProfileRow("p2", "b", Null)}
  /\ \E content \in ChartWorkbooks :
       LET fileName == UploadFileName(1, <<"w">>)
           row == FileRow("f1", "a", fileName, <<"w">>, 2,
                          UploadPath("a", fileName), "uploaded", 1)
       IN /\ excel_files = {row}
          /\ objects = {ObjectRow(row.file_path, content)}
          /\ files = <<row>>
          /\ totalFiles = Len(files)
          /\ totalSize = SumFileSize(files)
  /\ user = "a"
  /\ analytics_data = {}
  /\ resp = NoResponse
  /\ uploading = FALSE
  /\ uploadProgress = 0
  /\ deletingId = Null
  /\ loading = FALSE
  /\ selectedFile = <<>>
  /\ sheets = <<>>
  /\ activeSheet = 0
  /\ viewerLoading = FALSE
  /\ tab = "preview"
  /\ xAxis = ""
  /\ yAxis = ""
  /\ chartData = <<>>
  /\ pending = {}
  /\ event = NoEvent

TabValues == {"preview", "charts", "download"}

NextChart ==
  \/ \E file \in Listed : ViewFile(file)
  \/ BackToFiles
  \/ \E index \in DOMAIN sheets : SetActiveSheet(index)
  \/ \E r \in pending, fail \in BOOLEAN : LoadFileDataDone(r, fail)
  \/ \E r \in pending, fail \in BOOLEAN : SaveAnalyticsDataDone(r, fail)
  \/ \E value \in TabValues : SetTab(value)
  \/ \E column \in {"k", "n", "name"} : SetXAxis(column)
  \/ \E column \in {"k", "n", "name"} : SetYAxis(column)

SpecChart == InitChart /\ [][NextChart]_vars

(***************************************************************************)
(* SpecFetch: uploads, deletes and the fetches they start, with the        *)
(* responses of the fetches arriving in any order.                         *)
(***************************************************************************)
\* Every fetch succeeds; uploads and deletes may fail.
NextFetch ==
  \/ \E acceptedFiles \in {<<f>> : f \in DroppedFiles}, now \in 1..MaxClock :
       OnDrop(acceptedFiles, now)
  \/ \E r \in pending, fail \in BOOLEAN : OnDropUploaded(r, fail)
  \/ \E r \in pending, fail \in BOOLEAN : OnDropInserted(r, fail)
  \/ \E file \in Listed : HandleDelete(file)
  \/ \E r \in pending, fail \in BOOLEAN : HandleDeleteRemoved(r, fail)
  \/ \E r \in pending, fail \in BOOLEAN : HandleDeleteDeleted(r, fail)
  \/ \E r \in pending : FetchFilesServed(r)
  \/ \E r \in pending : FetchFilesReturned(r, FALSE)

SpecFetch == InitApp /\ [][NextFetch]_vars

(***************************************************************************)
(* SpecGuards: the handlers of the tab with and without a user.            *)
(***************************************************************************)
\* Index: what it renders for the values of useAuth().
Index(authLoading, authUser) ==
  IF authLoading THEN "Loader2"
  ELSE IF authUser = Null THEN "AuthForm"
  ELSE "Dashboard"

\* User "a" has uploaded one workbook.  FileList has its row in the files
\* prop, and useAuth() gives "a" or no user; without a user fetchFiles has
\* returned at once and loading is still true.
InitGuards ==
  /\ authUsers = UserIds
  /\ profiles = {ProfileRow("p1", "a", Null), ProfileRow("p2", "b", Null)}
  /\ LET fileName == UploadFileName(1, <<"w">>)
         row == FileRow("f1", "a", fileName, <<"w">>, 2,
                        UploadPath("a", fileName), "uploaded", 1)
     IN /\ excel_files = {row}
        /\ objects = {ObjectRow(row.file_path, Workbook)}
        /\ files = <<row>>
  /\ totalFiles = Len(files)
  /\ totalSize = SumFileSize(files)
  /\ user \in {Null, "a"}
  /\ loading = (user = Null)
  /\ analytics_data = {}
  /\ resp = NoResponse
  /\ uploading = FALSE
  /\ uploadProgress = 0
  /\ deletingId = Null
  /\ selectedFile = <<>>
  /\ sheets = <<>>
  /\ activeSheet = 0
  /\ viewerLoading = FALSE
  /\ tab = "preview"
  /\ xAxis = ""
  /\ yAxis = ""
  /\ chartData = <<>>
  /\ pending = {}
  /\ event = NoEvent

SpecGuards == InitGuards /\ [][NextApp]_vars

(***************************************************************************)
(* SpecList: the tab with the actions its components render: the dropzone  *)
(* of FileUpload and the two buttons FileList has for a row.               *)
(***************************************************************************)
\* The handlers behind the buttons of a row of FileList: Download and the
\* Delete of the dialog.  FileList takes the props files and onFileDeleted
\* only; the onFileView the Dashboard passes is no prop of it.
FileListAction(file) ==
  \/ HandleDownload(file)
  \/ HandleDelete(file)

NextList ==
  \/ \E acceptedFiles \in {<<>>} \cup {<<f>> : f \in DroppedFiles}, now \in 1..MaxClock :
       OnDrop(acceptedFiles, now)
  \/ \E r \in pending, fail \in BOOLEAN : OnDropUploaded(r, fail)
  \/ \E r \in pending, fail \in BOOLEAN : OnDropInserted(r, fail)
  \/ \E r \in pending, fail \in BOOLEAN : FetchFilesDone(r, fail)
  \/ \E file \in Listed : FileListAction(file)
  \/ \E r \in pending, fail \in BOOLEAN : HandleDownloadDone(r, fail)
  \/ \E r \in pending, fail \in BOOLEAN : HandleDeleteRemoved(r, fail)
  \/ \E r \in pending, fail \in BOOLEAN : HandleDeleteDeleted(r, fail)

SpecList == InitApp /\ [][NextList]_vars

(***************************************************************************)
(* Properties of the backend.                                              *)
(***************************************************************************)
\* C1: whatever a request on excel_files returned, removed, replaced or
\* created, every such row belongs to the caller (auth.uid() = user_id).
C1_FilesOwnerOnly ==
  resp.table = "excel_files" =>
    \A r \in resp.read \cup resp.old \cup resp.new : r.user_id = resp.caller

\* C1 witness: a caller's delete removed rows while another user's row stayed.
C1_Witness ==
  /\ resp.table = "excel_files"
  /\ resp.op = "delete"
  /\ resp.old # {}
  /\ \E f \in excel_files : f.user_id # resp.caller

\* C2: whatever a storage request returned, removed, replaced or created lies
\* in the folder named by the caller's id, and every path the tab builds for an
\* upload or a view has the tab's user id as its first folder.
C2_StorageOwnFolderOnly ==
  resp.table = "storage.objects" =>
    /\ \A o \in resp.read \cup resp.old \cup resp.new :
         /\ Len(FolderName(o.name)) >= 1
         /\ FolderName(o.name)[1] = UuidText(resp.caller)
    /\ resp.where.origin # "direct" =>
         /\ Len(FolderName(resp.where.name)) >= 1
         /\ FolderName(resp.where.name)[1] = UuidText(resp.caller)

\* C2 witness: a view downloaded an object while the bucket holds an object of
\* another user's folder.
C2_Witness ==
  /\ resp.table = "storage.objects"
  /\ resp.where.origin = "ExcelDataViewer"
  /\ resp.read # {}
  /\ \E o \in objects : FolderName(o.name)[1] # UuidText(resp.caller)

\* C3 as stated: whatever a request on profiles returned or wrote belongs to
\* the caller, reads included.
C3_ProfilesOwnerScoped ==
  resp.table = "profiles" =>
    \A r \in resp.read \cup resp.old \cup resp.new : r.user_id = resp.caller

\* C3 amended: a profiles row is inserted or updated only by the caller whose
\* id is its user_id, and a SELECT returns every row its filter matches, to
\* any caller.
C3_ProfilesWriteOwnedReadAll ==
  resp.table = "profiles" =>
    /\ \A r \in resp.old \cup resp.new : r.user_id = resp.caller
    /\ resp.op = "select" => resp.read = {p \in profiles : Matches(resp.where, p)}

\* C3 witness: a caller has read a profile row of another user.
C3_Witness ==
  /\ resp.table = "profiles"
  /\ resp.op = "select"
  /\ \E r \in resp.read : r.user_id # resp.caller

\* C8: every analytics_data row references an existing excel_files row.
C8_AnalyticsReferenceFiles ==
  \A a \in analytics_data : \E f \in excel_files : f.id = a.file_id

\* C8 witness: a delete removed file rows and analytics rows of other files remain.
C8_Witness ==
  /\ resp.table = "excel_files"
  /\ resp.op = "delete"
  /\ resp.old # {}
  /\ analytics_data # {}

\* C9: in every step each stored analytics_data row stays as it is, unless the
\* file it references is gone after the step.
C9_AnalyticsRowsKept ==
  [][\A a \in analytics_data :
       a \in analytics_data' \/ ~(\E f \in excel_files' : f.id = a.file_id)]_vars

\* C9 witness: the table is full of the caller's rows and the caller's DELETE of
\* one of them was carried out without removing anything.
C9_Witness ==
  /\ resp.table = "analytics_data"
  /\ resp.op = "delete"
  /\ resp.old = {}
  /\ {a.id : a \in analytics_data} = AnalyticsIds
  /\ \A a \in analytics_data : a.user_id = resp.caller

\* C10: every signed-up user has exactly one profiles row.
C10_OneProfilePerUser ==
  \A u \in authUsers : Cardinality({p \in profiles : p.user_id = u}) = 1

\* C10 witness: both users signed up and one of them updated a profile row.
C10_Witness ==
  /\ authUsers = UserIds
  /\ resp.table = "profiles"
  /\ resp.op = "update"
  /\ resp.old # {}

(***************************************************************************)
(* Properties of the tab.                                                  *)
(***************************************************************************)
SameRun(r, q) == r.inst = q.inst /\ r # q

\* C4, as the specification states it: whenever a handler has handled the
\* failure of a backend call or of parsing, it has shown a toast.
C4_EveryFailureToasts == event.failed => event.toasts # {}

\* C4: a failure of a backend call or of parsing shows a toast in upload,
\* delete, download, list fetch and file view (download and parse); a failed
\* analytics write shows none.
C4_FailuresToastExceptAnalyticsSave ==
  event.failed => (event.toasts # {} <=> event.op # "saveAnalyticsData")

C4_Witness ==
  /\ event.op = "saveAnalyticsData"
  /\ event.failed
  /\ event.toasts = {}
  /\ Len(sheets) > 0

\* C5, as the specification states it: no handler run has two requests
\* outstanding at the same moment.
C5_OneRequestPerOperation == \A r, q \in pending : ~SameRun(r, q)

\* C5: upload, delete, download, list fetch and the download of a file view
\* have one request outstanding at a time; the only requests of one run that
\* are outstanding together are the per-sheet analytics writes of a view,
\* and they are outstanding after the view's download has returned.
C5_OnlyAnalyticsWritesOverlap ==
  \A r, q \in pending :
    SameRun(r, q) => r.op = "saveAnalyticsData" /\ q.op = "saveAnalyticsData"

C5_Witness ==
  /\ \E r, q \in pending : SameRun(r, q) /\ r.op = "saveAnalyticsData"
  /\ ~viewerLoading
  /\ Len(sheets) > 1

\* C6: analytics_data holds at most one row per (file_id, sheet_name).
C6_OneRowPerSheet ==
  \A a, b \in analytics_data :
    a.file_id = b.file_id /\ a.sheet_name = b.sheet_name => a = b

\* C7, as the specification states it: every request of an upload is the
\* first one its onDrop issues.
C7_UploadIsOneRequest == \A r \in pending : r.op = "onDrop" => r.nth = 1

\* C7: uploading is true exactly while a request of onDrop is outstanding;
\* there is one at a time, first the storage upload and then, as the second
\* request, the insert of the excel_files row.
C7_UploadIsTwoRequestsInSequence ==
  /\ uploading <=> \E r \in pending : r.op = "onDrop"
  /\ \A r, q \in pending : r.op = "onDrop" /\ q.op = "onDrop" => r = q
  /\ \A r \in pending :
       r.op = "onDrop" => \/ r.kind = "upload" /\ r.nth = 1 /\ uploadProgress = 0
                          \/ r.kind = "insert" /\ r.nth = 2 /\ uploadProgress = 50

C7_Witness ==
  /\ uploading
  /\ \E r \in pending : r.op = "onDrop" /\ r.kind = "insert"
  /\ \E o \in objects : TRUE

\* C11: when a signed-in user drops a file whose MIME type is none of the
\* Excel and CSV types, onDrop shows 'Invalid file type', issues no request,
\* leaves uploading false, does not call onUploadComplete and leaves the
\* bucket and excel_files as they are.
C11_InvalidTypeRejected ==
  [][\A f \in DroppedFiles, now \in 1..MaxClock :
       (/\ user # Null
        /\ f.type \notin {"application/vnd.openxmlformats-officedocument.spreadsheetml.sheet",
                          "application/vnd.ms-excel", "text/csv"}
        /\ OnDrop(<<f>>, now))
       => /\ event'.toasts = {"Invalid file type"}
          /\ event'.calls = {}
          /\ pending' = pending
          /\ ~uploading /\ ~uploading'
          /\ objects' = objects
          /\ excel_files' = excel_files]_vars

C11_Witness ==
  /\ user # Null
  /\ event.op = "onDrop"
  /\ event.toasts = {"Invalid file type"}
  /\ ~uploading

\* C12: there is no retry.  A step in which a handler handles the failure of
\* a request or of parsing takes that request out of flight and issues none:
\* requests are issued only by a user's action or after a request succeeded.
C12_NoRetry ==
  [][event'.failed => \E r \in pending : pending' = pending \ {r}]_vars

C12_Witness ==
  /\ event.failed
  /\ event.op = "onDrop"
  /\ ~uploading
  /\ \A r \in pending : r.op # "onDrop"

\* C13: for every excel_files row that FileUpload created, the path the
\* viewer downloads (the user's id, '/', the row's filename), the path
\* FileList downloads and removes (the row's file_path) and the path the
\* object was stored at are the same string.
C13_OnePathPerFile ==
  /\ [](/\ \A f \in excel_files : ViewPath(f.user_id, f.filename) = f.file_path
        /\ \A r \in pending :
             r.op \in {"loadFileData", "handleDownload", "handleDelete"}
               => r.path = r.row[1].file_path)
  /\ [][/\ \A o \in objects' \ objects :
             \E r \in pending' : r.op = "onDrop" /\ r.kind = "insert" /\ r.path = o.name
        /\ \A f \in excel_files' \ excel_files :
             \E r \in pending : r.op = "onDrop" /\ r.kind = "insert" /\ r.path = f.file_path]_vars

C13_Witness ==
  /\ \E r \in pending, f \in excel_files, o \in objects :
       /\ r.op = "loadFileData"
       /\ r.row[1] = f
       /\ r.path = o.name
       /\ o.name = f.file_path

HasRows(sheet) == Len(sheet.json) > 0

NonBlank(h) == h # Hole /\ CellText(h) \notin {"", " "}

\* The workbook the open viewer was given.
Viewed == (CHOOSE o \in objects : o.name = selectedFile[1].file_path).content

\* C14: the parsed sheets are the workbook's sheets that have rows, in
\* workbook order; each has one record per row after the header row, in row
\* order, its columns are the non-blank header cells, and each record maps
\* every header to the cell at that header's column in the row, or to the
\* empty string when the row has no cell there.
C14_TabularShape ==
  (Len(selectedFile) > 0 /\ Len(sheets) > 0) =>
    LET filled == SelectSeq(Viewed.sheets, HasRows)
    IN /\ Len(sheets) = Len(filled)
       /\ \A i \in DOMAIN filled :
            LET headers == Head(filled[i].json)
                rows == Tail(filled[i].json)
            IN /\ sheets[i].name = filled[i].name
               /\ Len(sheets[i].data) = Len(rows)
               /\ sheets[i].columns = SelectSeq(headers, NonBlank)
               /\ \A k \in DOMAIN rows, j \in DOMAIN headers :
                    headers[j] # Hole =>
                      sheets[i].data[k][CellText(headers[j])] =
                        IF j <= Len(rows[k]) /\ rows[k][j] # Hole
                        THEN rows[k][j] ELSE Str("")

\* What parseExcelFile gives for the object stored for file row f.
ParsedOf(f) ==
  ParseExcelFile((CHOOSE o \in objects : o.name = f.file_path).content.sheets)

\* Row `a` is the summary of parsed sheet `sheet` of file `fileId` for the
\* signed-in user.
Summarises(a, sheet, fileId) ==
  /\ a.user_id = user
  /\ a.file_id = fileId
  /\ a.sheet_name = sheet.name
  /\ a.data.columns = sheet.columns
  /\ a.data.rowCount = Len(sheet.data)
  /\ Len(a.data.sampleData) = (IF a.data.rowCount < 5 THEN a.data.rowCount ELSE 5)
  /\ \A i \in 1..Len(a.data.sampleData) : a.data.sampleData[i] = sheet.data[i]

\* C15: saveAnalyticsData issues one write per parsed sheet, each carrying
\* the user's id, the viewed file's id, the sheet's name, its columns, its
\* number of data rows and its first min(5, rowCount) data rows in order;
\* every analytics row is such a summary; without a user nothing is written.
C15_OneSummaryPerSheet ==
  /\ [](user = Null =>
          /\ analytics_data = {}
          /\ \A r \in pending : r.op # "saveAnalyticsData")
  /\ [](\A r \in pending :
          r.op = "saveAnalyticsData" =>
            \E f \in excel_files :
              /\ r.nth \in DOMAIN ParsedOf(f)
              /\ Summarises(r.payload[1], ParsedOf(f)[r.nth], f.id))
  /\ [](\A a \in analytics_data :
          \E f \in excel_files :
            \E i \in DOMAIN ParsedOf(f) : Summarises(a, ParsedOf(f)[i], f.id))
  /\ []["saveAnalyticsData" \in event'.calls =>
          \E r0 \in pending \ pending' :
            LET parsed == ParsedOf(r0.row[1])
                new == pending' \ pending
            IN /\ r0.op = "loadFileData"
               /\ Cardinality(new) = Len(parsed)
               /\ {r.nth : r \in new} = DOMAIN parsed
               /\ \A r \in new : /\ r.op = "saveAnalyticsData"
                                 /\ r.payload[1].file_id = r0.row[1].id]_vars

C15_Witness ==
  \E a \in analytics_data :
    /\ a.user_id = "a"
    /\ a.sheet_name = "S2"
    /\ a.data.rowCount = 6
    /\ Len(a.data.sampleData) = 5

(***************************************************************************)
(* Properties of ChartGenerator.                                           *)
(***************************************************************************)
\* The rows of data the chart is said to keep: the x-axis cell is non-empty
\* and the y-axis value, the number the chart plots for the row, is not NaN.
Charted(row) ==
  /\ Truthy(RowCell(row, xAxis))
  /\ ~IsNaN(Num(YValue(row, yAxis)))

\* C16: chartData never has more than 20 entries, and after a regeneration
\* its entries are those of the first 20 rows, in row order, of the rows of
\* data whose x-axis cell is non-empty and whose y-axis value is not NaN.
C16_FirstTwentyChartedRows ==
  /\ Len(chartData) <= ChartLimit
  /\ "generateChartData" \in event.calls =>
       LET rows == SelectSeq(currentSheet.data, Charted)
           first == SubSeq(rows, 1, Min(ChartLimit, Len(rows)))
       IN chartData = [i \in DOMAIN first |-> ChartItem(first[i], xAxis, yAxis)]

\* The part of C16 that holds for every choice of axes: at most 20 entries,
\* and with two different columns (neither named name or value) the entries
\* are those of the first 20 rows with a non-empty x-axis cell.
C16_AtMostTwenty ==
  /\ Len(chartData) <= ChartLimit
  /\ ("generateChartData" \in event.calls /\ xAxis # yAxis
        /\ {xAxis, yAxis} \cap {"name", "value"} = {}) =>
       LET rows == SelectSeq(currentSheet.data, Charted)
           first == SubSeq(rows, 1, Min(ChartLimit, Len(rows)))
       IN chartData = [i \in DOMAIN first |-> ChartItem(first[i], xAxis, yAxis)]

\* A regeneration from more than 20 kept rows.
C16_Witness ==
  /\ "generateChartData" \in event.calls
  /\ Len(chartData) = ChartLimit
  /\ Len(SelectSeq(currentSheet.data, Charted)) > ChartLimit

(***************************************************************************)
(* Properties of the Dashboard.                                            *)
(***************************************************************************)
\* C17: totalFiles is the length of files and totalSize the sum of their
\* file_size, always.  A fetch that succeeds replaces files by the rows of
\* excel_files owned by the user, newest upload_date first, and the two
\* statistics with them; a fetch that fails leaves all three as they were
\* and shows a notification; loading is false after either.
C17_StatsAgreeWithList ==
  /\ [](totalFiles = Len(files) /\ totalSize = SumFileSize(files))
  /\ [][\A r \in pending, fail \in BOOLEAN :
          FetchFilesDone(r, fail) =>
            /\ loading' = FALSE
            /\ IF event'.failed
               THEN /\ UNCHANGED <<files, totalFiles, totalSize>>
                    /\ event'.toasts # {}
               ELSE /\ {files'[i] : i \in DOMAIN files'} =
                         {f \in excel_files : f.user_id = user}
                    /\ Len(files') = Cardinality({f \in excel_files : f.user_id = user})
                    /\ \A i, j \in DOMAIN files' :
                         i < j => files'[i].upload_date >= files'[j].upload_date
                    /\ totalFiles' = Len(files')
                    /\ totalSize' = SumFileSize(files')]_vars

\* A fetch has listed two files of different sizes.
C17_Witness ==
  /\ event.op = "fetchFiles"
  /\ ~event.failed
  /\ Len(files) = 2
  /\ totalSize = 3
  /\ files[1].file_size # files[2].file_size

(***************************************************************************)
(* Properties of upload and delete.                                        *)
(***************************************************************************)
\* analytics_data has a row for every parsed sheet of a file that can be
\* parsed.
Processed(f, content, analytics) ==
  \/ content.corrupt
  \/ LET parsed == ParseExcelFile(content.sheets)
     IN \A i \in DOMAIN parsed :
          \E a \in analytics : a.file_id = f.id /\ a.sheet_name = parsed[i].name

\* C18: when an upload reports success (the toast and onUploadComplete), the
\* file has been parsed and the analytics of each of its sheets are in
\* analytics_data.
C18_UploadHasProcessed ==
  [][\A r \in pending, fail \in BOOLEAN :
       (OnDropInserted(r, fail) /\ "onUploadComplete" \in event'.calls) =>
         \E f \in excel_files' \ excel_files :
           Processed(f, r.dropped[1].content, analytics_data')]_vars

\* C18 as the code has it: an upload that reports success has inserted the
\* row of its path with status 'uploaded', and has written
\* nothing to analytics_data; analytics rows are written by saveAnalyticsData
\* alone, which runs when a file is viewed.
C18_UploadStoresViewProcesses ==
  /\ [][\A r \in pending, fail \in BOOLEAN :
          (OnDropInserted(r, fail) /\ "onUploadComplete" \in event'.calls) =>
            /\ "Success" \in event'.toasts
            /\ \E f \in excel_files' \ excel_files :
                 /\ f.file_path = r.path
                 /\ f.status = "uploaded"
                 /\ \A a \in analytics_data' : a.file_id # f.id
            /\ UNCHANGED analytics_data]_vars
  /\ [][\A a \in analytics_data' \ analytics_data :
          /\ event'.op = "saveAnalyticsData"
          /\ \E r \in pending : r.op = "saveAnalyticsData" /\ r.payload[1].file_id = a.file_id]_vars

\* An upload of a workbook has reported success and nothing of the file is
\* in analytics_data.
C18_Witness ==
  /\ event.op = "onDrop"
  /\ "onUploadComplete" \in event.calls
  /\ \E f \in excel_files, o \in objects :
       /\ o.name = f.file_path
       /\ ~o.content.corrupt
       /\ ParseExcelFile(o.content.sheets) # <<>>
       /\ \A a \in analytics_data : a.file_id # f.id

\* An object is stored at the path.
Stored(path, objs) == \E o \in objs : o.name = path

\* A row of excel_files names the path.
Recorded(path, rows) == \E f \in rows : f.file_path = path

\* C19: when an upload attempt has finished, at whichever step, an object is
\* stored at its path if and only if a row of excel_files has that
\* file_path: a failed insert leaves no object behind.
C19_UploadConsistent ==
  [][\A r \in pending, fail \in BOOLEAN :
       ((OnDropUploaded(r, fail) \/ OnDropInserted(r, fail))
          /\ \A q \in pending' : q.inst # r.inst \/ q.op # "onDrop") =>
         (Stored(r.path, objects') <=> Recorded(r.path, excel_files'))]_vars

\* C20: handleDelete removes the object before it deletes the row, deletes
\* the row only if the removal reported no error, and calls onFileDeleted
\* only when both succeeded; when a delete attempt has finished no row of
\* excel_files is left whose file_path has no object, and deletingId is null.
C20_DeleteConsistent ==
  [][\A r \in pending, fail \in BOOLEAN :
       /\ HandleDeleteRemoved(r, fail) =>
            /\ UNCHANGED excel_files
            /\ (\E q \in pending' : q.inst = r.inst /\ q.kind = "delete") <=> ~event'.failed
       /\ ((HandleDeleteRemoved(r, fail) \/ HandleDeleteDeleted(r, fail))
             /\ \A q \in pending' : q.inst # r.inst \/ q.op # "handleDelete") =>
            /\ deletingId' = Null
            /\ "onFileDeleted" \in event'.calls =>
                 (r.kind = "delete" /\ ~event'.failed /\ r.row[1] \notin excel_files')
            /\ \A f \in excel_files' : Stored(f.file_path, objects')]_vars

\* The parts of C20 that hold: the order of the two requests, onFileDeleted
\* only after both succeeded, and deletingId null after every attempt.
C20_DeleteOrder ==
  [][\A r \in pending, fail \in BOOLEAN :
       /\ HandleDeleteRemoved(r, fail) =>
            /\ UNCHANGED excel_files
            /\ (\E q \in pending' : q.inst = r.inst /\ q.kind = "delete") <=> ~event'.failed
       /\ ((HandleDeleteRemoved(r, fail) \/ HandleDeleteDeleted(r, fail))
             /\ \A q \in pending' : q.inst # r.inst \/ q.op # "handleDelete") =>
            /\ deletingId' = Null
            /\ "onFileDeleted" \in event'.calls =>
                 (r.kind = "delete" /\ ~event'.failed /\ r.row[1] \notin excel_files')]_vars

(***************************************************************************)
(* Properties of the ownership of analytics rows.                          *)
(***************************************************************************)
\* C21: in every state of the database that policy-permitted requests can
\* reach, the user_id of each analytics_data row is the user_id of the
\* excel_files row its file_id references.
C21_AnalyticsOwnerIsFileOwner ==
  \A a \in analytics_data :
    \A f \in excel_files : f.id = a.file_id => f.user_id = a.user_id

\* What the constraints and policies do give: each analytics row references
\* an existing file row, and was written by the user it names.
C21_AnalyticsReferencesAFile ==
  /\ \A a \in analytics_data : \E f \in excel_files : f.id = a.file_id
  /\ resp.table = "analytics_data" => \A a \in resp.new : a.user_id = resp.caller

(***************************************************************************)
(* Properties of the file list under concurrent fetches.                   *)
(***************************************************************************)
\* C22: when every fetch that was started has completed successfully and no
\* upload or delete is under way, files holds exactly the rows of
\* excel_files of the user, whatever order the responses arrived in.
C22_ListConverges ==
  (user # Null /\ pending = {}) =>
    {files[i] : i \in DOMAIN files} = {f \in excel_files : f.user_id = user}

\* What holds whatever the order: files, totalFiles and totalSize are those
\* of one response, the one that arrived last.
C22_ListIsOneResponse ==
  /\ [](totalFiles = Len(files) /\ totalSize = SumFileSize(files))
  /\ [][\A r \in pending : FetchFilesReturned(r, FALSE) => files' = r.payload]_vars

(***************************************************************************)
(* Properties of the handlers without a user.                              *)
(***************************************************************************)
\* C23: Index renders the Dashboard only when auth loading has finished
\* and there is a user, and none of fetchFiles, onDrop, handleDelete,
\* handleDownload, loadFileData and saveAnalyticsData issues a backend
\* request when user is null.
C23_NoRequestWithoutUser ==
  /\ \A l \in BOOLEAN, u \in {Null} \cup UserIds :
       Index(l, u) = "Dashboard" => (~l /\ u # Null)
  /\ user = Null => pending = {}

\* C23 as the code has it: without a user the only request a handler issues
\* is the download of handleDownload, which has no check of user; the
\* backend refuses it, and nothing in the database or the bucket changes.
C23_OnlyDownloadWithoutUser ==
  /\ [](\A l \in BOOLEAN, u \in {Null} \cup UserIds :
          Index(l, u) = "Dashboard" => (~l /\ u # Null))
  /\ [](user = Null => \A r \in pending : r.op = "handleDownload")
  /\ [][user = Null =>
          /\ UNCHANGED <<dbVars, objects>>
          /\ (event'.op = "handleDownload" /\ pending' \subseteq pending /\ pending' # pending)
               => event'.failed]_vars

\* Without a user, handleDelete has returned without a request for a
\* listed file.
C23_Witness ==
  /\ user = Null
  /\ files # <<>>
  /\ event.op = "handleDelete"
  /\ pending = {}

\* C24: in the chart tab every entry of chartData is the entry of a row of
\* the data of the current sheet for the current xAxis and yAxis, whatever
\* axes were selected and whatever sheets were shown before, a sheet
\* without data rows included.
C24_ChartOfCurrentData ==
  (tab = "charts" /\ sheets # <<>>) =>
    \A i \in DOMAIN chartData :
      \E j \in DOMAIN currentSheet.data :
        chartData[i] = ChartItem(currentSheet.data[j], xAxis, yAxis)

\* What holds: the entries are those of the current data and axes whenever
\* the current sheet has a data row.
C24_ChartOfCurrentRows ==
  (tab = "charts" /\ sheets # <<>> /\ Len(currentSheet.data) > 0) =>
    \A i \in DOMAIN chartData :
      \E j \in DOMAIN currentSheet.data :
        chartData[i] = ChartItem(currentSheet.data[j], xAxis, yAxis)

EntryOf(entry, row) ==
  /\ entry = ChartItem(row, xAxis, yAxis)
  /\ entry[xAxis] = RowCell(row, xAxis)
  /\ entry["name"] = RowCell(row, xAxis)
  /\ entry[yAxis] = Num(YValue(row, yAxis))
  /\ entry["value"] = Num(YValue(row, yAxis))

\* C26: for every choice of xAxis and yAxis among the columns, the same
\* column twice and columns named name or value included, each entry of a
\* regenerated chartData is built from a row r with entry[xAxis] =
\* entry.name = r[xAxis] and entry[yAxis] = entry.value = the number
\* parseFloat reads from r[yAxis], or 0.
C26_EntryMapsAxes ==
  "generateChartData" \in event.calls =>
    \A i \in DOMAIN chartData :
      \E j \in DOMAIN currentSheet.data : EntryOf(chartData[i], currentSheet.data[j])

\* What holds: the same for two different columns of which the x-axis is
\* not named value and the y-axis is not named name.
C26_EntryMapsDistinctAxes ==
  ("generateChartData" \in event.calls /\ xAxis # yAxis
     /\ xAxis # "value" /\ yAxis # "name") =>
    \A i \in DOMAIN chartData :
      \E j \in DOMAIN currentSheet.data : EntryOf(chartData[i], currentSheet.data[j])

(***************************************************************************)
(* Properties of opening a file from the list.                             *)
(***************************************************************************)
\* C27: in every state of the Dashboard in which files is non-empty and
\* selectedFile is null, each listed file has an action in the file list
\* after which selectedFile is that file (and the viewer is mounted for it).
C27_ListedFileCanBeOpened ==
  (files # <<>> /\ Len(selectedFile) = 0) =>
    \A file \in Listed :
      ENABLED (FileListAction(file) /\ selectedFile' = <<file>>)

\* What holds with the actions FileList has: selectedFile stays null and
\* the viewer is never mounted.
C27_NoFileIsEverOpened ==
  /\ Len(selectedFile) = 0
  /\ sheets = <<>>
  /\ \A r \in pending : r.op \notin {"loadFileData", "saveAnalyticsData"}

====
